---- MODULE Spec2Model ----
(***************************************************************************)
(* Threat-intelligence aggregation and monitoring engine:                  *)
(*   - IOCService (backend/app/services/ioc_service.py): cache lookup,     *)
(*     source resolution, fan-out, aggregation, cache population, save;    *)
(*   - IOCResponseCache / RedisCache: the two cache tiers;                 *)
(*   - WatchlistScheduler (backend/app/services/scheduler.py): the tick.   *)
(*                                                                         *)
(* Conventions.  A Python Optional[T] is the empty sequence (None) or a    *)
(* one-element sequence <<v>>; the verdict string keeps Python's None as   *)
(* the string "None".  Time is counted in seconds.  A risk signal is kept  *)
(* as its decimal numeral in tenths (9 is the JSON number 0.9) and turned  *)
(* into the IEEE-754 binary64 value Python computes with where the code    *)
(* does arithmetic on it.                                                  *)
(***************************************************************************)
EXTENDS Integers, Sequences, FiniteSets, TLC

(***************************************************************************)
(* Bounds of the model.                                                    *)
(***************************************************************************)
MaxResults == 3

(***************************************************************************)
(* binary64 arithmetic on non-negative values.  A value is an exact        *)
(* natural number of units of 2^-60, written little-endian in five limbs   *)
(* of 20 bits (so every double in [2^-7, 2^40) is represented exactly).    *)
(* Sums and quotients are formed exactly and then rounded to 53            *)
(* significant bits, ties to even, which is what the hardware does.        *)
(***************************************************************************)
LimbBase == 2^20

LimbIdx == 1..5

RECURSIVE AddCarry(_, _, _, _)
AddCarry(a, b, i, carry) ==
    IF i > 5 THEN <<>>
    ELSE LET s == a[i] + b[i] + carry
         IN  <<s % LimbBase>> \o AddCarry(a, b, i + 1, s \div LimbBase)

AddNat(a, b) == AddCarry(a, b, 1, 0)

\* long division of the limbs a[1..i] by the small integer n, r carried in
RECURSIVE DivStep(_, _, _, _)
DivStep(a, n, i, r) ==
    IF i = 0 THEN [q |-> <<>>, r |-> r]
    ELSE LET cur  == r * LimbBase + a[i]
             rest == DivStep(a, n, i - 1, cur % n)
         IN  [q |-> rest.q \o <<cur \div n>>, r |-> rest.r]

RECURSIVE BitLen(_)
BitLen(x) == IF x = 0 THEN 0 ELSE 1 + BitLen(x \div 2)

\* index of the most significant set bit, -1 for zero
MsbIndex(a) ==
    LET nz == {i \in LimbIdx : a[i] # 0}
    IN  IF nz = {} THEN 0 - 1
        ELSE LET top == CHOOSE i \in nz : \A j \in nz : j <= i
             IN  20 * (top - 1) + BitLen(a[top]) - 1

BitAt(a, k) == (a[(k \div 20) + 1] \div (2^(k % 20))) % 2

AnyBelow(a, k) ==
    \E i \in LimbIdx :
        \/ i < (k \div 20) + 1 /\ a[i] # 0
        \/ i = (k \div 20) + 1 /\ a[i] % (2^(k % 20)) # 0

TruncBelow(a, k) ==
    [i \in LimbIdx |->
        IF i < (k \div 20) + 1 THEN 0
        ELSE IF i = (k \div 20) + 1 THEN a[i] - (a[i] % (2^(k % 20)))
        ELSE a[i]]

PowNat(k) == [i \in LimbIdx |-> IF i = (k \div 20) + 1 THEN 2^(k % 20) ELSE 0]

\* round an exact value (plus a sticky flag for a discarded remainder) to
\* 53 significant bits, round-half-to-even
RoundToDouble(a, sticky) ==
    LET c == MsbIndex(a) - 52
    IN  IF c <= 0 THEN a
        ELSE LET guard == BitAt(a, c - 1) = 1
                 below == sticky \/ AnyBelow(a, c - 1)
                 odd   == BitAt(a, c) = 1
                 t     == TruncBelow(a, c)
             IN  IF guard /\ (below \/ odd) THEN AddNat(t, PowNat(c)) ELSE t

FloatAdd(a, b) == RoundToDouble(AddNat(a, b), FALSE)

FloatDivInt(a, n) ==
    LET d == DivStep(a, n, 5, 0)
    IN  RoundToDouble(d.q, d.r # 0)

FloatGeq(a, b) ==
    LET ne == {i \in LimbIdx : a[i] # b[i]}
    IN  \/ ne = {}
        \/ LET top == CHOOSE i \in ne : \A j \in ne : j <= i
           IN  a[top] > b[top]

\* the double nearest to the decimal k/10, as float("0.9") or a JSON parse gives
FloatOfTenths(k) == FloatDivInt(<<0, 0, 0, k, 0>>, 10)

\* the builtin sum(): left to right from the integer 0
RECURSIVE FloatSumFrom(_, _, _)
FloatSumFrom(xs, i, acc) ==
    IF i > Len(xs) THEN acc
    ELSE FloatSumFrom(xs, i + 1, FloatAdd(acc, xs[i]))

FloatSum(xs) == FloatSumFrom(xs, 1, <<0, 0, 0, 0, 0>>)

(***************************************************************************)
(* IOCSourceResult and the aggregation rule.                               *)
(***************************************************************************)
None == "None"

IOCSourceResult(source, status, risk_score) ==
    [source |-> source, status |-> status, risk_score |-> risk_score]

IsValidResult(r) == r.risk_score # <<>> /\ r.status = "success"

IsNonSuccess(r) == r.status # "success"

\* the mapping of the average to a level (ioc_service.py:51-59)
RiskLevelOf(avg_score) ==
    IF FloatGeq(avg_score, FloatOfTenths(8)) THEN "high"
    ELSE IF FloatGeq(avg_score, FloatOfTenths(5)) THEN "medium"
    ELSE IF FloatGeq(avg_score, FloatOfTenths(2)) THEN "low"
    ELSE "clean"

\* variant: "unknown" only when every result failed (all() for any())
CalculateOverallRisk_AllFailed(rs) ==
    IF rs = <<>> THEN None
    ELSE LET valid_results == SelectSeq(rs, IsValidResult)
         IN  IF valid_results = <<>>
             THEN IF \A i \in 1..Len(rs) : IsNonSuccess(rs[i])
                  THEN "unknown" ELSE None
             ELSE LET risk_scores ==
                          [i \in 1..Len(valid_results) |->
                              FloatOfTenths(valid_results[i].risk_score[1])]
                      avg_score ==
                          FloatDivInt(FloatSum(risk_scores), Len(risk_scores))
                  IN  RiskLevelOf(avg_score)

CalculateOverallRisk(results) ==
    IF results = <<>> THEN None
    ELSE LET valid_results == SelectSeq(results, IsValidResult)
         IN  IF valid_results = <<>>
             THEN LET non_success_results == SelectSeq(results, IsNonSuccess)
                  IN  IF non_success_results # <<>> THEN "unknown" ELSE None
             ELSE LET risk_scores ==
                          [i \in 1..Len(valid_results) |->
                              FloatOfTenths(valid_results[i].risk_score[1])]
                      avg_score ==
                          FloatDivInt(FloatSum(risk_scores), Len(risk_scores))
                  IN  RiskLevelOf(avg_score)

(***************************************************************************)
(* Indicators.  str.lower() on the strings of the model.                   *)
(***************************************************************************)
IocTypes == {"ip", "IP", "url"}

IocValues == {"8.8.8.8", "http://evil.test/a", "HTTP://EVIL.TEST/A"}

Lower(s) ==
    CASE s = "IP" -> "ip"
      [] s = "HTTP://EVIL.TEST/A" -> "http://evil.test/a"
      [] s = "AbuseIPDB" -> "abuseipdb"
      [] s \in {"HIGH", "High"} -> "high"
      [] s \in {"MEDIUM", "Medium"} -> "medium"
      [] s \in {"LOW", "Low"} -> "low"
      [] s \in {"CLEAN", "Clean"} -> "clean"
      [] s \in {"UNKNOWN", "Unknown"} -> "unknown"
      [] s = "CRITICAL" -> "critical"
      [] OTHER -> s

IOCQueryResponse(ioc_type, ioc_value, risk, queried_sources, queried_at) ==
    [ioc_type |-> ioc_type, ioc_value |-> ioc_value, overall_risk |-> risk,
     queried_sources |-> queried_sources, queried_at |-> queried_at]

(***************************************************************************)
(* IOCResponseCache (cache.py): _store is a dict from key to               *)
(* (response, stored_at); a dict is a function on the set of its keys.     *)
(***************************************************************************)
ttl == 300

\* variant: the key keeps the caller's letter case
MakeKey_CaseSensitive(ioc_type, ioc_value) == <<ioc_type, ioc_value>>

MakeKey(ioc_type, ioc_value) == <<Lower(ioc_type), Lower(ioc_value)>>

DictDel(d, key) == [k \in (DOMAIN d) \ {key} |-> d[k]]

DictPut(d, key, value) ==
    [k \in (DOMAIN d) \cup {key} |-> IF k = key THEN value ELSE d[k]]

\* variant: an entry expires as soon as its age reaches the ttl
CacheGet_ExpireEarly(store, t, ioc_type, ioc_value) ==
    LET key == MakeKey(ioc_type, ioc_value)
    IN  IF key \notin DOMAIN store
        THEN [ret |-> <<>>, store |-> store]
        ELSE IF t - store[key].stored_at >= ttl
             THEN [ret |-> <<>>, store |-> DictDel(store, key)]
             ELSE [ret |-> <<store[key].response>>, store |-> store]

\* get() at time t: the value returned and the store it leaves
CacheGet(store, t, ioc_type, ioc_value) ==
    LET key == MakeKey(ioc_type, ioc_value)
    IN  IF key \notin DOMAIN store
        THEN [ret |-> <<>>, store |-> store]
        ELSE IF t - store[key].stored_at > ttl
             THEN [ret |-> <<>>, store |-> DictDel(store, key)]
             ELSE [ret |-> <<store[key].response>>, store |-> store]

CacheSet(store, t, response) ==
    DictPut(store, MakeKey(response.ioc_type, response.ioc_value),
            [response |-> response, stored_at |-> t])

(***************************************************************************)
(* RedisCache (redis_cache.py), the shared tier.  client is None when      *)
(* redis is disabled or the connection failed at start-up; the store keeps *)
(* for each key the JSON text and the instant SETEX lets it expire.        *)
(***************************************************************************)
RedisKey(payload) == <<"ioc", Lower(payload.ioc_type), Lower(payload.ioc_value)>>

\* response.dict() followed by json.dumps(default=str): the datetime
\* queried_at becomes a string, everything else is JSON as it stands
JsonDumps(response) ==
    [response EXCEPT !.queried_at = <<"str", response.queried_at>>]

\* IOCQueryResponse(**json.loads(text)): pydantic parses the string back
ParseResponse(data) == [data EXCEPT !.queried_at = data.queried_at[2]]

\* whether IOCQueryResponse(**cached_data) succeeds: -1 stands for a
\* queried_at that is not the text of a datetime
Parsable(data) == data.queried_at[2] >= 0

RedisGet(client, store, t, key, fails) ==
    IF ~client THEN <<>>
    ELSE IF fails THEN <<>>
    ELSE IF key \in DOMAIN store /\ t < store[key].expires
         THEN <<store[key].value>>
         ELSE <<>>

\* variant: set() never reaches the server
RedisSet_Dropped(client, store, t, key, value, seconds, fails) == store

RedisSet(client, store, t, key, value, seconds, fails) ==
    IF ~client THEN store
    ELSE IF fails THEN store
    ELSE DictPut(store, key, [value |-> value, expires |-> t + seconds])

(***************************************************************************)
(* Source Registry: the api_sources and api_keys tables.                   *)
(***************************************************************************)
SourceOrder == <<"abuseipdb", "threatfox">>

KeyOrder == <<"k1", "k2">>

SeqToSet(sq) == {sq[i] : i \in 1..Len(sq)}

\* variant: the filters on is_active and update_mode are left out
GetActiveApiKeys_NoFilter(api_keys, api_sources, sources, auto_mode_only) ==
    LET ok(k) ==
            (sources # <<>> /\ sources[1] # <<>>)
                => api_keys[k].api_source \in {Lower(n) : n \in SeqToSet(sources[1])}
        keep(k) == ok(k)
    IN  [i \in 1..Len(SelectSeq(KeyOrder, keep)) |->
            [key |-> <<SelectSeq(KeyOrder, keep)[i]>>,
             source |-> api_keys[SelectSeq(KeyOrder, keep)[i]].api_source]]

\* _get_active_api_keys: (key, source) pairs of the join, in table order
GetActiveApiKeys(api_keys, api_sources, sources, auto_mode_only) ==
    LET keep(k) ==
            /\ api_keys[k].is_active
            /\ api_sources[api_keys[k].api_source].is_active
            /\ auto_mode_only => api_keys[k].update_mode = "auto"
            /\ (sources # <<>> /\ sources[1] # <<>>)
                  => api_keys[k].api_source \in {Lower(n) : n \in SeqToSet(sources[1])}
    IN  [i \in 1..Len(SelectSeq(KeyOrder, keep)) |->
            [key |-> <<SelectSeq(KeyOrder, keep)[i]>>,
             source |-> api_keys[SelectSeq(KeyOrder, keep)[i]].api_source]]

\* _get_sources_without_auth
GetSourcesWithoutAuth(api_sources, sources) ==
    LET keep(n) ==
            /\ api_sources[n].is_active
            /\ api_sources[n].authentication_type = "none"
            /\ (sources # <<>> /\ sources[1] # <<>>)
                  => n \in {Lower(m) : m \in SeqToSet(sources[1])}
    IN  SelectSeq(SourceOrder, keep)

\* query_ioc lines 344-362: keyed pairs first, then the unauthenticated
\* sources that are not in the list yet
AllSourcesToQuery(api_keys, api_sources, sources, auto_mode_only) ==
    LET keyed == GetActiveApiKeys(api_keys, api_sources, sources, auto_mode_only)
        fresh(n) == \A i \in 1..Len(keyed) : keyed[i].source # n
        open  == SelectSeq(GetSourcesWithoutAuth(api_sources, sources), fresh)
    IN  keyed \o [i \in 1..Len(open) |-> [key |-> <<>>, source |-> open[i]]]

(***************************************************************************)
(* DynamicAPIClient.query (dynamic_api_client.py).  The HTTP call either   *)
(* raises an exception of requests or returns a response with a status     *)
(* code and a body; the body is JSON or not, and the value found at the    *)
(* configured risk_score_path is a number (risk_score, in tenths), a       *)
(* string (label) or nothing.  The dict the adapter returns keeps that     *)
(* value as it is.                                                         *)
(***************************************************************************)
Outcome(status, risk_score) ==
    [status |-> status, risk_score |-> risk_score, label |-> ""]

\* an adapter dict whose risk_score is the string found at the path
LabelOutcome(status, label) ==
    [status |-> status, risk_score |-> <<>>, label |-> label]

\* the classes of requests.exceptions an exception is an instance of
ExceptionBases(kind) ==
    CASE kind = "ReadTimeout" ->
            {"ReadTimeout", "Timeout", "RequestException", "Exception"}
      [] kind = "ConnectTimeout" ->
            {"ConnectTimeout", "ConnectionError", "Timeout",
             "RequestException", "Exception"}
      [] kind = "ConnectionError" ->
            {"ConnectionError", "RequestException", "Exception"}
      [] kind = "TooManyRedirects" ->
            {"TooManyRedirects", "RequestException", "Exception"}
      [] kind = "HTTPError" ->
            {"HTTPError", "RequestException", "Exception"}
      [] OTHER -> {kind, "Exception"}

\* Response.raise_for_status raises HTTPError for a client or server error
RaisesForStatus(status_code) == 400 <= status_code /\ status_code < 600

HttpRaised(kind) ==
    [raised |-> kind, status_code |-> 0, json |-> FALSE,
     risk_score |-> <<>>, label |-> ""]

HttpResponse(status_code, json, risk_score, label) ==
    [raised |-> "", status_code |-> status_code, json |-> json,
     risk_score |-> risk_score, label |-> label]

\* the except clauses of query in their order (lines 182-207)
ClientFailure(kind) ==
    IF "Timeout" \in ExceptionBases(kind)
    THEN [status |-> "timeout", risk_score |-> <<>>, label |-> "",
          error |-> "Request timeout", raw |-> "", http_status |-> 0]
    ELSE [status |-> "error", risk_score |-> <<>>, label |-> "",
          error |-> kind, raw |-> "", http_status |-> 0]

\* lines 168-180: response.json(), or {"text": response.text} for a body that
\* is not JSON, then _parse_response with the configured risk_score_path
ClientSuccess(has_risk_score_path, http) ==
    [status      |-> "success",
     risk_score  |-> IF has_risk_score_path /\ http.json
                     THEN http.risk_score ELSE <<>>,
     label       |-> IF has_risk_score_path /\ http.json
                     THEN http.label ELSE "",
     error       |-> "",
     raw         |-> IF http.json THEN "json" ELSE "text",
     http_status |-> http.status_code]

\* DynamicAPIClient.query from the HTTP call on (lines 155-207)
ClientQuery(has_risk_score_path, http) ==
    IF http.raised # "" THEN ClientFailure(http.raised)
    ELSE IF RaisesForStatus(http.status_code) THEN ClientFailure("HTTPError")
    ELSE ClientSuccess(has_risk_score_path, http)

\* what _query_single_source reads from the dict
AdapterOutcome(result) ==
    [status |-> result.status, risk_score |-> result.risk_score,
     label |-> result.label]

(***************************************************************************)
(* One source.  An adapter outcome is what DynamicAPIClient.query does:    *)
(* it returns a dict with status success (and the extracted risk score,    *)
(* possibly None), timeout or error, or it raises while building the       *)
(* request.                                                                *)
(***************************************************************************)
Supports(source, ioc_type) ==
    \/ source.supported_ioc_types = <<>>
    \/ Lower(ioc_type) \in {Lower(ty) : ty \in SeqToSet(source.supported_ioc_types)}

\* the Zone of kaspersky as a score (ioc_service.py:204-212), in tenths
ZoneToScore(zone) ==
    CASE zone = "Red" -> 9
      [] zone = "Yellow" -> 6
      [] zone = "Green" -> 3
      [] zone \in {"White", "Grey"} -> 1
      [] OTHER -> 5

\* float() of a string: the number it spells, in tenths, or <<>> when float()
\* raises ValueError
FloatOfString(label) ==
    CASE label = "0.9" -> <<9>>
      [] label = "85" -> <<850>>
      [] OTHER -> <<>>

\* 'float(risk_score) if risk_score is not None else None' raises (line 229)
FloatRaises(name, outcome) ==
    /\ outcome.status = "success"
    /\ outcome.label # ""
    /\ name # "kaspersky"
    /\ FloatOfString(outcome.label) = <<>>

\* what the body after the client call builds from the returned dict
ResultOfOutcome(name, outcome) ==
    IOCSourceResult(name, outcome.status,
                    IF outcome.status # "success" THEN <<>>
                    ELSE IF outcome.label = "" THEN outcome.risk_score
                    ELSE IF name = "kaspersky" THEN <<ZoneToScore(outcome.label)>>
                    ELSE FloatOfString(outcome.label))

ErrorResult(name) == IOCSourceResult(name, "error", <<>>)

\* str.strip() on a secret: "blank" is a string of whitespace
Strip(s) == IF s = "blank" THEN "" ELSE s

\* the stored secrets: none, whitespace, a token of another key ("undecryptable"),
\* the token of a whitespace string and the token of a secret
StoredSecrets == {"", "blank", "undecryptable", "encrypted_blank", "valid"}

\* variant: a failed decryption hands the ciphertext on
DecryptValue_PassThrough(encrypted_value) ==
    CASE encrypted_value = "valid" -> "secret"
      [] encrypted_value = "encrypted_blank" -> "blank"
      [] OTHER -> encrypted_value

\* decrypt_value (encryption.py): empty for an empty value and for any
\* failure of Fernet, the plaintext otherwise
DecryptValue(encrypted_value) ==
    CASE encrypted_value = "" -> ""
      [] encrypted_value = "valid" -> "secret"
      [] encrypted_value = "encrypted_blank" -> "blank"
      [] OTHER -> ""

\* ioc_service.py lines 124-155: the key to call the adapter with, <<>> when
\* authentication is required and there is no usable secret
DecryptedKey(key, source) ==
    IF source.authentication_type = "none" THEN <<"">>
    ELSE IF Strip(key.api_key) = "" THEN <<>>
    ELSE IF Strip(DecryptValue(key.api_key)) = "" THEN <<>>
    ELSE <<DecryptValue(key.api_key)>>

\* _query_single_source: the result, whether the adapter was invoked, and
\* whether api_key.last_used was set
QuerySingleSource(key, source, name, ioc_type, outcome) ==
    IF ~Supports(source, ioc_type)
    THEN [result |-> IOCSourceResult(name, "skipped", <<>>),
          called |-> FALSE, touched |-> FALSE]
    ELSE IF DecryptedKey(key, source) = <<>>
    THEN [result |-> ErrorResult(name), called |-> FALSE, touched |-> FALSE]
    ELSE IF outcome.status = "raises"
    THEN [result |-> ErrorResult(name), called |-> TRUE, touched |-> FALSE]
    ELSE IF FloatRaises(name, outcome)
    THEN [result |-> ErrorResult(name), called |-> TRUE, touched |-> TRUE]
    ELSE [result |-> ResultOfOutcome(name, outcome),
          called |-> TRUE, touched |-> TRUE]

\* _query_single_source_without_key
QuerySingleSourceWithoutKey(source, name, ioc_type, outcome) ==
    IF ~Supports(source, ioc_type)
    THEN [result |-> IOCSourceResult(name, "skipped", <<>>),
          called |-> FALSE, touched |-> FALSE]
    ELSE IF outcome.status = "raises" \/ FloatRaises(name, outcome)
    THEN [result |-> ErrorResult(name), called |-> TRUE, touched |-> FALSE]
    ELSE [result |-> ResultOfOutcome(name, outcome),
          called |-> TRUE, touched |-> FALSE]

\* variant: an exception raised by one source ends the loop
RECURSIVE FanOut_AbortOnRaise(_, _, _, _, _, _, _)
FanOut_AbortOnRaise(entries, i, api_keys, api_sources, t, ioc_type, out) ==
    IF i > Len(entries)
    THEN [results |-> <<>>, api_keys |-> api_keys, calls |-> <<>>]
    ELSE LET e    == entries[i]
             one  == IF e.key = <<>>
                     THEN QuerySingleSourceWithoutKey(api_sources[e.source],
                              e.source, ioc_type, out[e.source])
                     ELSE QuerySingleSource(api_keys[e.key[1]],
                              api_sources[e.source], e.source, ioc_type,
                              out[e.source])
             keys1 == IF one.touched
                      THEN [api_keys EXCEPT ![e.key[1]].last_used = <<t>>]
                      ELSE api_keys
             rest == IF one.called /\ out[e.source].status = "raises"
                     THEN [results |-> <<>>, api_keys |-> keys1, calls |-> <<>>]
                     ELSE FanOut_AbortOnRaise(entries, i + 1, keys1,
                                              api_sources, t, ioc_type, out)
         IN  [results  |-> <<one.result>> \o rest.results,
              api_keys |-> rest.api_keys,
              calls    |-> (IF one.called THEN <<e>> ELSE <<>>) \o rest.calls]

\* query_ioc lines 382-391: every entry in turn, one result each
RECURSIVE FanOut(_, _, _, _, _, _, _)
FanOut(entries, i, api_keys, api_sources, t, ioc_type, out) ==
    IF i > Len(entries)
    THEN [results |-> <<>>, api_keys |-> api_keys, calls |-> <<>>]
    ELSE LET e    == entries[i]
             one  == IF e.key = <<>>
                     THEN QuerySingleSourceWithoutKey(api_sources[e.source],
                              e.source, ioc_type, out[e.source])
                     ELSE QuerySingleSource(api_keys[e.key[1]],
                              api_sources[e.source], e.source, ioc_type,
                              out[e.source])
             keys1 == IF one.touched
                      THEN [api_keys EXCEPT ![e.key[1]].last_used = <<t>>]
                      ELSE api_keys
             rest == FanOut(entries, i + 1, keys1, api_sources, t, ioc_type, out)
         IN  [results  |-> <<one.result>> \o rest.results,
              api_keys |-> rest.api_keys,
              calls    |-> (IF one.called THEN <<e>> ELSE <<>>) \o rest.calls]

(***************************************************************************)
(* query_ioc.  w is the part of the state the call reads and writes        *)
(* (ioc_cache, redis_client, redis_store, api_sources, api_keys,           *)
(* ioc_queries); env is what the outside world does during the call: the   *)
(* adapter outcome per source and whether redis and the database fail.     *)
(* Besides the new state and the response, the call yields a trace of      *)
(* what it did.                                                            *)
(***************************************************************************)
\* _get_risk_score_from_level, in tenths
\* variant: the label is looked up as it is written
GetRiskScoreFromLevel_CaseSensitive(risk_level) ==
    IF risk_level = None \/ risk_level = "" THEN <<>>
    ELSE CASE risk_level = "high" -> <<9>>
           [] risk_level = "medium" -> <<6>>
           [] risk_level = "low" -> <<3>>
           [] risk_level = "clean" -> <<1>>
           [] risk_level = "unknown" -> <<5>>
           [] OTHER -> <<>>

\* _get_risk_score_from_level (ioc_service.py:26-31), the score in tenths
GetRiskScoreFromLevel(risk_level) ==
    IF risk_level = None \/ risk_level = "" THEN <<>>
    ELSE CASE Lower(risk_level) = "high" -> <<9>>
           [] Lower(risk_level) = "medium" -> <<6>>
           [] Lower(risk_level) = "low" -> <<3>>
           [] Lower(risk_level) = "clean" -> <<1>>
           [] Lower(risk_level) = "unknown" -> <<5>>
           [] OTHER -> <<>>

\* _save_query_to_db: one IOCQuery row carrying its ThreatIntelligenceData
\* rows (one per result whose source is in api_sources); a failure rolls back
SaveQueryToDb(ioc_queries, api_sources, user_id, payload, response, fails) ==
    IF fails THEN ioc_queries
    ELSE LET known(r) == r.source \in DOMAIN api_sources
             recs == SelectSeq(response.queried_sources, known)
         IN  Append(ioc_queries,
                [user_id     |-> user_id,
                 ioc_type    |-> payload.ioc_type,
                 ioc_value   |-> payload.ioc_value,
                 query_date  |-> response.queried_at,
                 risk_score  |-> IF response.overall_risk \in {None, ""} THEN <<>>
                                 ELSE GetRiskScoreFromLevel(response.overall_risk),
                 status      |-> IF response.overall_risk \in {None, ""} THEN "pending"
                                 ELSE response.overall_risk,
                 threat_data |-> [i \in 1..Len(recs) |-> recs[i].source]])

NoSourcesResponse(payload, t) ==
    IOCQueryResponse(payload.ioc_type, payload.ioc_value, None,
                     <<IOCSourceResult("system", "error", <<>>)>>, t)

Trace(user_id, payload, auto_mode_only, t, lookups, hit, resolved, eligible, calls, saved, response) ==
    [user_id |-> user_id, payload |-> payload,
     auto_mode_only |-> auto_mode_only, at |-> t,
     lookups |-> lookups, hit |-> hit, resolved |-> resolved,
     eligible |-> eligible, calls |-> calls, saved |-> saved,
     response |-> response]

\* variant: the query is saved before the caches are written, and a
\* failure of the save ends the call
QueryFinish_SaveFirst(w, t, user_id, payload, auto_mode_only, env, store, entries, f, response) ==
    [w |-> [w EXCEPT
              !.api_keys = f.api_keys,
              !.ioc_cache = IF env.db_fails THEN store
                            ELSE CacheSet(store, t, response),
              !.redis_store = IF env.db_fails THEN @
                              ELSE RedisSet(w.redis_client, w.redis_store, t,
                                            RedisKey(payload),
                                            JsonDumps(response), 300,
                                            env.redis_fails),
              !.ioc_queries = SaveQueryToDb(w.ioc_queries, w.api_sources,
                                            user_id, payload, response,
                                            env.db_fails)],
     trace |-> Trace(user_id, payload, auto_mode_only, t, <<"redis", "memory">>,
                     "none", TRUE, entries, f.calls, TRUE, response)]

\* lines 393-416: the response is built, cached in both tiers and saved
QueryFinish(w, t, user_id, payload, auto_mode_only, env, store, entries, f, response) ==
    [w |-> [w EXCEPT
              !.api_keys = f.api_keys,
              !.ioc_cache = CacheSet(store, t, response),
              !.redis_store = RedisSet(w.redis_client, w.redis_store, t,
                                       RedisKey(payload), JsonDumps(response),
                                       300, env.redis_fails),
              !.ioc_queries = SaveQueryToDb(w.ioc_queries, w.api_sources,
                                            user_id, payload, response,
                                            env.db_fails)],
     trace |-> Trace(user_id, payload, auto_mode_only, t, <<"redis", "memory">>,
                     "none", TRUE, entries, f.calls, TRUE, response)]

\* lines 382-403, with f the outcome of the loop over the entries
QueryAggregate(w, t, user_id, payload, auto_mode_only, env, store, entries, f) ==
    QueryFinish(w, t, user_id, payload, auto_mode_only, env, store, entries, f,
        IOCQueryResponse(payload.ioc_type, payload.ioc_value,
                         CalculateOverallRisk(f.results), f.results, t))

\* variant: the answer for an empty source set is cached and saved like
\* any other
QueryResolved_CacheNoSources(w, t, user_id, payload, auto_mode_only, env, store, entries) ==
    IF entries = <<>>
    THEN QueryFinish(w, t, user_id, payload, auto_mode_only, env, store,
             entries, [results |-> <<>>, api_keys |-> w.api_keys, calls |-> <<>>],
             NoSourcesResponse(payload, t))
    ELSE QueryAggregate(w, t, user_id, payload, auto_mode_only, env, store,
             entries,
             FanOut(entries, 1, w.api_keys, w.api_sources, t, payload.ioc_type,
                    env.out))

\* lines 364-391, with entries the resolved all_sources_to_query
QueryResolved(w, t, user_id, payload, auto_mode_only, env, store, entries) ==
    IF entries = <<>>
    THEN [w |-> [w EXCEPT !.ioc_cache = store],
          trace |-> Trace(user_id, payload, auto_mode_only, t,
                          <<"redis", "memory">>, "none", TRUE, entries, <<>>,
                          FALSE, NoSourcesResponse(payload, t))]
    ELSE QueryAggregate(w, t, user_id, payload, auto_mode_only, env, store,
             entries,
             FanOut(entries, 1, w.api_keys, w.api_sources, t, payload.ioc_type,
                    env.out))

\* lines 333-362, with g what ioc_cache.get returned and left
QueryAfterMemory(w, t, user_id, payload, auto_mode_only, env, g) ==
    IF g.ret # <<>>
    THEN [w |-> [w EXCEPT !.redis_store =
                    RedisSet(w.redis_client, w.redis_store, t, RedisKey(payload),
                             JsonDumps(g.ret[1]), 300, env.redis_fails)],
          trace |-> Trace(user_id, payload, auto_mode_only, t,
                          <<"redis", "memory">>, "memory", FALSE, <<>>, <<>>,
                          FALSE, g.ret[1])]
    ELSE QueryResolved(w, t, user_id, payload, auto_mode_only, env, g.store,
             AllSourcesToQuery(w.api_keys, w.api_sources, payload.sources,
                               auto_mode_only))

\* lines 326-334, with cached_data what redis_cache.get returned
QueryAfterRedis(w, t, user_id, payload, auto_mode_only, env, cached_data) ==
    IF cached_data # <<>> /\ Parsable(cached_data[1])
    THEN [w |-> w,
          trace |-> Trace(user_id, payload, auto_mode_only, t, <<"redis">>,
                          "redis", FALSE, <<>>, <<>>, FALSE,
                          ParseResponse(cached_data[1]))]
    ELSE QueryAfterMemory(w, t, user_id, payload, auto_mode_only, env,
             CacheGet(w.ioc_cache, t, payload.ioc_type, payload.ioc_value))

QueryIoc(w, t, user_id, payload, auto_mode_only, env) ==
    QueryAfterRedis(w, t, user_id, payload, auto_mode_only, env,
        RedisGet(w.redis_client, w.redis_store, t, RedisKey(payload),
                 env.redis_fails))

(***************************************************************************)
(* Watchlist checks: the scheduler (scheduler.py) and the manual check     *)
(* (watchlist_service.py).  The world w also holds the tables watchlists,  *)
(* items, check_history and alerts and the configured database_url.        *)
(***************************************************************************)
watchlist_scheduler_min_check_interval == 60

WatchlistOrder == <<"w1", "w2">>

ItemOrder == <<"i1", "i2", "i3">>

\* _convert_risk_to_status
ConvertRiskToStatus(risk_level) ==
    IF risk_level = None \/ risk_level = "" THEN <<>>
    ELSE CASE Lower(risk_level) = "high" -> <<"malicious">>
           [] Lower(risk_level) = "medium" -> <<"suspicious">>
           [] Lower(risk_level) = "low" -> <<"suspicious">>
           [] Lower(risk_level) = "clean" -> <<"clean">>
           [] OTHER -> <<>>

\* variant: every threshold triggers from its own level upwards, so that
\* medium also triggers a threshold of high
ShouldTriggerAlert_FromLevelUp(risk_threshold, risk_level) ==
    /\ risk_threshold # <<>>
    /\ risk_level \in {"low", "medium", "high"}
    /\ \/ risk_threshold[1] = "low"
       \/ risk_level = "high"
       \/ risk_level = "medium" /\ risk_threshold[1] \in {"medium", "high"}

\* WatchlistScheduler._should_trigger_alert
ShouldTriggerAlert(risk_threshold, risk_level) ==
    IF risk_threshold = <<>> \/ risk_level = None \/ risk_level = "" THEN FALSE
    ELSE CASE risk_threshold[1] = "low" ->
                 Lower(risk_level) \in {"low", "medium", "high"}
           [] risk_threshold[1] = "medium" ->
                 Lower(risk_level) \in {"medium", "high"}
           [] risk_threshold[1] = "high" -> Lower(risk_level) = "high"
           [] risk_threshold[1] = "critical" -> Lower(risk_level) = "high"
           [] OTHER -> FALSE

\* WatchlistService._convert_risk_to_status (watchlist_service.py)
ServiceConvertRiskToStatus(risk_level) ==
    IF risk_level = None \/ risk_level = "" THEN <<>>
    ELSE CASE Lower(risk_level) = "high" -> <<"malicious">>
           [] Lower(risk_level) = "medium" -> <<"suspicious">>
           [] Lower(risk_level) = "low" -> <<"suspicious">>
           [] Lower(risk_level) = "clean" -> <<"clean">>
           [] OTHER -> <<>>

\* WatchlistService._should_trigger_alert (watchlist_service.py)
ServiceShouldTriggerAlert(risk_threshold, risk_level) ==
    IF risk_threshold = <<>> \/ risk_level = None \/ risk_level = "" THEN FALSE
    ELSE Lower(risk_level) \in
            (CASE risk_threshold[1] = "low" -> {"low", "medium", "high"}
               [] risk_threshold[1] = "medium" -> {"medium", "high"}
               [] risk_threshold[1] = "high" -> {"high"}
               [] risk_threshold[1] = "critical" -> {"high"}
               [] OTHER -> {})

\* severity_map.get((overall_risk or "unknown").lower(), MEDIUM)
AlertSeverityOf(risk_level) ==
    CASE risk_level = None -> "medium"
      [] Lower(risk_level) = "low" -> "low"
      [] Lower(risk_level) = "high" -> "high"
      [] Lower(risk_level) = "critical" -> "high"
      [] OTHER -> "medium"

\* a DateTime(timezone=True) column read back: PostgreSQL returns an aware
\* datetime, SQLite stores no offset and returns a naive one
LoadDateTime(database_url, t) ==
    [t |-> t, tzinfo |-> IF database_url = "postgresql" THEN <<"utc">> ELSE <<>>]

\* scheduler.py lines 113-122 for one item; current_time is aware, and
\* subtracting a naive datetime from it raises TypeError
ShouldCheck(item, watchlist, current_time, database_url) ==
    IF item.last_check_date = <<>> THEN "check"
    ELSE LET last == LoadDateTime(database_url, item.last_check_date[1])
         IN  IF last.tzinfo = <<>> THEN "raises"
             ELSE IF current_time - last.t >= watchlist.check_interval * 60
                  THEN "check"
                  ELSE "skip"

\* variant: the check leaves the item's verdict as it was
RecordCheck_KeepsVerdict(w, t, id, alert_user, risk, status, trig, create_alert) ==
    [w EXCEPT
       !.items[id] = [@ EXCEPT !.last_check_date = <<t>>,
                               !.last_status = status],
       !.check_history = Append(@,
           [watchlist_item_id |-> id, check_date |-> t, risk_score |-> risk,
            status |-> status, alert_triggered |-> trig]),
       !.alerts = IF create_alert
                  THEN Append(@, [user_id |-> alert_user,
                                  watchlist_id |-> w.items[id].watchlist_id,
                                  asset_id |-> id,
                                  severity |-> AlertSeverityOf(risk)])
                  ELSE @]

\* the rows a check writes: the item update, the history row and, when
\* create_alert holds, the alert for alert_user
RecordCheck(w, t, id, alert_user, risk, status, trig, create_alert) ==
    [w EXCEPT
       !.items[id] = [@ EXCEPT !.last_check_date = <<t>>,
                               !.last_risk_score = risk,
                               !.last_status = status],
       !.check_history = Append(@,
           [watchlist_item_id |-> id, check_date |-> t, risk_score |-> risk,
            status |-> status, alert_triggered |-> trig]),
       !.alerts = IF create_alert
                  THEN Append(@, [user_id |-> alert_user,
                                  watchlist_id |-> w.items[id].watchlist_id,
                                  asset_id |-> id,
                                  severity |-> AlertSeverityOf(risk)])
                  ELSE @]

ItemRequest(item) ==
    [ioc_type |-> item.ioc_type, ioc_value |-> item.ioc_value, sources |-> <<>>]

\* variant: the alert is created whatever the policy says
SchedulerRecord_AlwaysAlert(q, t, id) ==
    [w |-> RecordCheck(q.w, t, id,
               q.w.watchlists[q.w.items[id].watchlist_id].user_id,
               q.trace.response.overall_risk,
               ConvertRiskToStatus(q.trace.response.overall_risk),
               ShouldTriggerAlert(q.w.items[id].risk_threshold,
                                  q.trace.response.overall_risk),
               TRUE),
     trace |-> q.trace]

\* scheduler.py lines 145-200 on the outcome q of the query
SchedulerRecord(q, t, id) ==
    [w |-> RecordCheck(q.w, t, id,
               q.w.watchlists[q.w.items[id].watchlist_id].user_id,
               q.trace.response.overall_risk,
               ConvertRiskToStatus(q.trace.response.overall_risk),
               ShouldTriggerAlert(q.w.items[id].risk_threshold,
                                  q.trace.response.overall_risk),
               ShouldTriggerAlert(q.w.items[id].risk_threshold,
                                  q.trace.response.overall_risk)),
     trace |-> q.trace]

\* WatchlistScheduler._check_watchlist_item
SchedulerCheckWatchlistItem(w, t, id, env) ==
    SchedulerRecord(
        QueryIoc(w, t, w.watchlists[w.items[id].watchlist_id].user_id,
                 ItemRequest(w.items[id]), TRUE, env),
        t, id)

\* watchlist_service.py lines 279-335 on the outcome q of the query
ServiceRecord(q, t, id, user_id) ==
    [w |-> RecordCheck(q.w, t, id, user_id,
               q.trace.response.overall_risk,
               ServiceConvertRiskToStatus(q.trace.response.overall_risk),
               ServiceShouldTriggerAlert(q.w.items[id].risk_threshold,
                                         q.trace.response.overall_risk),
               ServiceShouldTriggerAlert(q.w.items[id].risk_threshold,
                                         q.trace.response.overall_risk)
                 /\ q.w.watchlists[q.w.items[id].watchlist_id].notification_enabled),
     trace |-> q.trace]

\* WatchlistService.check_watchlist_item, called by the owner
ManualCheckWatchlistItem(w, t, id, user_id, env) ==
    ServiceRecord(
        QueryIoc(w, t, user_id, ItemRequest(w.items[id]), FALSE, env),
        t, id, user_id)

\* the tick so far: the world, the items checked and their queries
Checked(w) == [w |-> w, checked |-> <<>>, queries |-> <<>>]

AddCheck(acc, id, c) ==
    [w |-> c.w, checked |-> Append(acc.checked, id),
     queries |-> Append(acc.queries, c.trace)]

\* the loop of _check_watchlist (lines 111-128) from position i on; an
\* exception of the gate is outside the per-item try and ends the loop
RECURSIVE CheckItemsFrom(_, _, _, _, _, _)
CheckItemsFrom(acc, t, wl, ids, i, env) ==
    IF i > Len(ids) THEN acc
    ELSE LET gate == ShouldCheck(acc.w.items[ids[i]], acc.w.watchlists[wl], t,
                                 acc.w.database_url)
         IN  IF gate = "raises" THEN acc
             ELSE IF gate = "skip"
             THEN CheckItemsFrom(acc, t, wl, ids, i + 1, env)
             ELSE CheckItemsFrom(
                      AddCheck(acc, ids[i],
                          SchedulerCheckWatchlistItem(acc.w, t, ids[i], env)),
                      t, wl, ids, i + 1, env)

\* the active items of a watchlist, in table order
ActiveItems(w, wl) ==
    LET mine(id) == w.items[id].watchlist_id = wl /\ w.items[id].is_active
    IN  SelectSeq(ItemOrder, mine)

\* _check_watchlist without the floor on check_interval
CheckWatchlist_NoFloor(acc, t, wl, env) ==
    CheckItemsFrom(acc, t, wl, ActiveItems(acc.w, wl), 1, env)

\* WatchlistScheduler._check_watchlist
CheckWatchlist(acc, t, wl, env) ==
    IF acc.w.watchlists[wl].check_interval < watchlist_scheduler_min_check_interval
    THEN acc
    ELSE CheckItemsFrom(acc, t, wl, ActiveItems(acc.w, wl), 1, env)

\* the loop of _check_all_watchlists over the selected watchlists
RECURSIVE CheckWatchlistsFrom(_, _, _, _, _)
CheckWatchlistsFrom(acc, t, wls, i, env) ==
    IF i > Len(wls) THEN acc
    ELSE CheckWatchlistsFrom(CheckWatchlist(acc, t, wls[i], env), t, wls,
                             i + 1, env)

\* WatchlistScheduler._check_all_watchlists
CheckAllWatchlists(w, t, env) ==
    LET sel(wl) == w.watchlists[wl].is_active
                      /\ w.watchlists[wl].notification_enabled
    IN  CheckWatchlistsFrom(Checked(w), t, SelectSeq(WatchlistOrder, sel), 1, env)

(***************************************************************************)
(* State.                                                                  *)
(***************************************************************************)
VARIABLES
    results,        \* argument list handed to _calculate_overall_risk
    overall_risk,   \* what it returned: empty before the call, the one-element sequence of the level after
    alertCall,      \* a call of _should_trigger_alert: its arguments and result
    clientCall,     \* a call of DynamicAPIClient.query: the HTTP outcome and the dict
    levelCall,      \* a call of _get_risk_score_from_level: its argument and result
    scheduler,      \* the WatchlistScheduler, its jobs and their running passes
    requests,       \* per request thread, the manual check it is in
    now,            \* datetime.now(timezone.utc), in seconds
    ioc_cache,      \* ioc_cache._store, the process-local tier
    cacheCall,      \* the last call made on the cache and what it returned
    lastSet,        \* per key, the response and time of the latest set()
    redis_client,   \* whether RedisCache.client is a connection (not None)
    redis_store,    \* the keys held by the redis server
    api_sources,    \* table api_sources, by name
    api_keys,       \* table api_keys, by id
    ioc_queries,    \* table ioc_queries with the threat data of each row
    database_url,   \* the dialect of settings.database_url
    watchlists,     \* table asset_watchlist, by id
    items,          \* table asset_watchlist_items, by id
    check_history,  \* table asset_check_history
    alerts,         \* table alerts
    lastOp          \* the handler that ran last and the trace of its queries

riskVars == <<results, overall_risk, alertCall, clientCall, levelCall>>

threadVars == <<scheduler, requests>>

cacheVars == <<now, ioc_cache, cacheCall, lastSet>>

queryVars == <<redis_client, redis_store, api_sources, api_keys, ioc_queries,
               database_url, watchlists, items, check_history, alerts, lastOp>>

vars == <<results, overall_risk, alertCall, clientCall, levelCall, scheduler, requests, now, ioc_cache, cacheCall, lastSet,
          redis_client, redis_store, api_sources, api_keys, ioc_queries,
          database_url, watchlists, items, check_history, alerts, lastOp>>

\* the instants at which the model observes the system
TimePoints == {0, 300, 360, 3540, 3600, 3660}

AdvanceClock(points) ==
    \E t \in points : t > now /\ now' = t

(***************************************************************************)
(* _calculate_overall_risk as a function of any list of IOCSourceResult    *)
(* (the unit test builds such lists directly).                             *)
(***************************************************************************)
Statuses == {"success", "error", "timeout", "skipped", "not_supported"}

SignalTenths == {1, 2, 5, 6, 8, 9}

\* the results a list is drawn from: every status without a signal, a
\* success with each signal, and an error that still carries a signal
ResultPool ==
    {IOCSourceResult("src", st, <<>>) : st \in Statuses}
        \cup {IOCSourceResult("src", "success", <<k>>) : k \in SignalTenths}
        \cup {IOCSourceResult("src", "error", <<9>>)}

ResultLists == UNION {[1..n -> ResultPool] : n \in 0..MaxResults}

\* levelCall while _get_risk_score_from_level is not being called on its own
NoLevelCall == [risk_level |-> None, ret |-> <<>>]

\* clientCall while the adapter is not being called on its own
NoClientCall ==
    [has_risk_score_path |-> FALSE, http |-> HttpRaised("none"), ret |-> <<>>]

\* alertCall while no alert policy is being called
NoAlertCall ==
    [path |-> "none", risk_threshold |-> <<>>, risk_level |-> None, ret |-> <<>>]

RequestThreads == {"r1", "r2"}

\* the scheduler before start() and no request in a manual check
NoThreads ==
    /\ scheduler = [enabled |-> FALSE, importable |-> FALSE,
                    is_running |-> FALSE, jobs |-> 0, starts |-> 0,
                    passes |-> <<>>]
    /\ requests = [r \in RequestThreads |-> <<>>]

InitCacheVars ==
    /\ now = 0
    /\ ioc_cache = <<>>
    /\ cacheCall = [op |-> "none"]
    /\ lastSet = <<>>

\* the rows seeded for the two sources (seed_predefined_apis.py)
ApiSourceRow(name, is_active) ==
    IF name = "abuseipdb"
    THEN [authentication_type |-> "api_key", supported_ioc_types |-> <<"ip">>,
          is_active |-> is_active]
    ELSE [authentication_type |-> "none",
          supported_ioc_types |-> <<"ip", "domain", "url", "hash">>,
          is_active |-> is_active]

ApiKeyRow(user_id, api_source, api_key, is_active, update_mode) ==
    [user_id |-> user_id, api_source |-> api_source, api_key |-> api_key,
     is_active |-> is_active, update_mode |-> update_mode, last_used |-> <<>>]


\* lastOp before any handler has run
NoOp ==
    [op |-> "none", queries |-> <<>>, checked |-> <<>>,
     env |-> [out |-> [n \in SeqToSet(SourceOrder) |-> Outcome("error", <<>>)],
              redis_fails |-> FALSE, db_fails |-> FALSE]]

\* a deployment without stored credentials and without redis
InitQueryVars ==
    /\ redis_client = FALSE
    /\ redis_store = <<>>
    /\ api_sources = [n \in SeqToSet(SourceOrder) |-> ApiSourceRow(n, TRUE)]
    /\ api_keys = [k \in SeqToSet(KeyOrder) |->
                      ApiKeyRow("u1", "abuseipdb", "valid", FALSE, "manual")]
    /\ ioc_queries = <<>>
    /\ database_url = "sqlite"
    /\ watchlists = <<>>
    /\ items = <<>>
    /\ check_history = <<>>
    /\ alerts = <<>>
    /\ lastOp = NoOp

InitRisk ==
    /\ results \in ResultLists
    /\ overall_risk = <<>>
    /\ alertCall = NoAlertCall
    /\ clientCall = NoClientCall
    /\ levelCall = NoLevelCall
    /\ NoThreads
    /\ InitCacheVars
    /\ InitQueryVars

CallCalculateOverallRisk ==
    /\ overall_risk = <<>>
    /\ overall_risk' = <<CalculateOverallRisk(results)>>
    /\ UNCHANGED <<results, alertCall, clientCall, levelCall, threadVars, cacheVars, queryVars>>

NextRisk == CallCalculateOverallRisk

SpecRisk == InitRisk /\ [][NextRisk]_vars

(***************************************************************************)
(* The process-local cache on its own: callers set and get at will while   *)
(* time passes.                                                            *)
(***************************************************************************)
Indicators ==
    {<<"ip", "8.8.8.8">>, <<"IP", "8.8.8.8">>, <<"url", "HTTP://EVIL.TEST/A">>}

CacheResponses ==
    {IOCQueryResponse(ind[1], ind[2], "high", <<>>, now) : ind \in Indicators}

InitCache ==
    /\ results = <<>>
    /\ overall_risk = <<>>
    /\ alertCall = NoAlertCall
    /\ clientCall = NoClientCall
    /\ levelCall = NoLevelCall
    /\ NoThreads
    /\ InitCacheVars
    /\ InitQueryVars

CallCacheSet ==
    \E response \in CacheResponses :
        /\ ioc_cache' = CacheSet(ioc_cache, now, response)
        /\ lastSet' = DictPut(lastSet,
                              <<Lower(response.ioc_type), Lower(response.ioc_value)>>,
                              [response |-> response, at |-> now])
        /\ cacheCall' = [op |-> "set", response |-> response]
        /\ UNCHANGED <<now, riskVars, threadVars, queryVars>>

CallCacheGet ==
    \E ioc_type \in IocTypes, ioc_value \in IocValues :
        LET g == CacheGet(ioc_cache, now, ioc_type, ioc_value)
        IN  /\ ioc_cache' = g.store
            /\ cacheCall' = [op |-> "get", ioc_type |-> ioc_type,
                              ioc_value |-> ioc_value, ret |-> g.ret]
            /\ UNCHANGED <<now, lastSet, riskVars, threadVars, queryVars>>

CacheClock ==
    /\ AdvanceClock(TimePoints)
    /\ cacheCall' = [op |-> "clock"]
    /\ UNCHANGED <<ioc_cache, lastSet, riskVars, threadVars, queryVars>>

NextCache == CallCacheSet \/ CallCacheGet \/ CacheClock

SpecCache == InitCache /\ [][NextCache]_vars

(***************************************************************************)
(* _should_trigger_alert of the scheduler and of the watchlist service as  *)
(* functions of any threshold and any verdict.                             *)
(***************************************************************************)
\* the column is Enum(RiskThreshold), nullable
RiskThresholds == {<<>>, <<"low">>, <<"medium">>, <<"high">>, <<"critical">>}

\* overall_risk is Optional[str]
RiskLevels == {None, "", "clean", "low", "medium", "high", "critical", "unknown"}

InitPolicy ==
    /\ results = <<>>
    /\ overall_risk = <<>>
    /\ alertCall \in [path : {"scheduler", "service"},
                      risk_threshold : RiskThresholds,
                      risk_level : RiskLevels, ret : {<<>>}]
    /\ clientCall = NoClientCall
    /\ levelCall = NoLevelCall
    /\ NoThreads
    /\ InitCacheVars
    /\ InitQueryVars

CallShouldTriggerAlert ==
    /\ alertCall.ret = <<>>
    /\ alertCall' =
          [alertCall EXCEPT !.ret =
              <<IF alertCall.path = "scheduler"
                THEN ShouldTriggerAlert(alertCall.risk_threshold,
                                        alertCall.risk_level)
                ELSE ServiceShouldTriggerAlert(alertCall.risk_threshold,
                                               alertCall.risk_level)>>]
    /\ UNCHANGED <<results, overall_risk, clientCall, levelCall, threadVars, cacheVars, queryVars>>

NextPolicy == CallShouldTriggerAlert

SpecPolicy == InitPolicy /\ [][NextPolicy]_vars

(***************************************************************************)
(* DynamicAPIClient.query on its own, for every outcome of the HTTP call   *)
(* and a response_config with or without a risk_score_path.                *)
(***************************************************************************)
HttpStatusCodes == {200, 204, 300, 304, 404, 500, 503}

\* the value at the risk_score_path of a JSON body: nothing, the numbers 0.9,
\* 85 and 12, and two strings
HttpBodies ==
    {<<TRUE, <<>>, "">>, <<TRUE, <<9>>, "">>, <<TRUE, <<850>>, "">>,
     <<TRUE, <<120>>, "">>, <<TRUE, <<>>, "Red">>, <<TRUE, <<>>, "malicious">>,
     <<FALSE, <<>>, "">>}

HttpOutcomes ==
    {HttpRaised(kind) : kind \in {"ReadTimeout", "ConnectTimeout",
                                  "ConnectionError", "TooManyRedirects"}}
        \cup {HttpResponse(code, b[1], b[2], b[3]) :
                 code \in HttpStatusCodes, b \in HttpBodies}

InitClient ==
    /\ results = <<>>
    /\ overall_risk = <<>>
    /\ alertCall = NoAlertCall
    /\ clientCall \in [has_risk_score_path : BOOLEAN, http : HttpOutcomes,
                       ret : {<<>>}]
    /\ levelCall = NoLevelCall
    /\ NoThreads
    /\ InitCacheVars
    /\ InitQueryVars

CallClientQuery ==
    /\ clientCall.ret = <<>>
    /\ clientCall' =
          [clientCall EXCEPT !.ret =
              <<ClientQuery(clientCall.has_risk_score_path, clientCall.http)>>]
    /\ UNCHANGED <<results, overall_risk, alertCall, levelCall, threadVars, cacheVars, queryVars>>

NextClient == CallClientQuery

SpecClient == InitClient /\ [][NextClient]_vars

(***************************************************************************)
(* _get_risk_score_from_level on its own, as the unit test calls it, and   *)
(* _save_query_to_db for a response with that verdict.                     *)
(***************************************************************************)
LevelInputs ==
    {None, "", "high", "HIGH", "High", "medium", "MEDIUM", "Medium", "low",
     "LOW", "Low", "clean", "CLEAN", "Clean", "unknown", "UNKNOWN", "Unknown",
     "critical", "CRITICAL", "invalid", "pending"}

InitLevel ==
    /\ results = <<>>
    /\ overall_risk = <<>>
    /\ alertCall = NoAlertCall
    /\ clientCall = NoClientCall
    /\ levelCall \in [risk_level : LevelInputs, ret : {<<>>}]
    /\ NoThreads
    /\ InitCacheVars
    /\ InitQueryVars

CallGetRiskScoreFromLevel ==
    /\ levelCall.ret = <<>>
    /\ levelCall' =
          [levelCall EXCEPT !.ret = <<GetRiskScoreFromLevel(levelCall.risk_level)>>]
    /\ UNCHANGED <<results, overall_risk, alertCall, clientCall, threadVars,
                   cacheVars, queryVars>>

\* _save_query_to_db(user_id, payload, response) for a response without
\* source results whose verdict is the label
CallSaveQueryToDb ==
    /\ ioc_queries = <<>>
    /\ \E user_id \in {"u1", "u2"}, ind \in Indicators :
          ioc_queries' =
              SaveQueryToDb(ioc_queries, api_sources, user_id,
                  [ioc_type |-> ind[1], ioc_value |-> ind[2], sources |-> <<>>],
                  IOCQueryResponse(ind[1], ind[2], levelCall.risk_level, <<>>, now),
                  FALSE)
    /\ UNCHANGED <<riskVars, threadVars, cacheVars, redis_client, redis_store,
                   api_sources, api_keys, database_url, watchlists, items,
                   check_history, alerts, lastOp>>

NextLevel == CallGetRiskScoreFromLevel \/ CallSaveQueryToDb

SpecLevel == InitLevel /\ [][NextLevel]_vars

(***************************************************************************)
(* Handlers on the whole state.                                            *)
(***************************************************************************)
World ==
    [ioc_cache |-> ioc_cache, redis_client |-> redis_client,
     redis_store |-> redis_store, api_sources |-> api_sources,
     api_keys |-> api_keys, ioc_queries |-> ioc_queries,
     database_url |-> database_url, watchlists |-> watchlists,
     items |-> items, check_history |-> check_history, alerts |-> alerts]

Commit(w) ==
    /\ ioc_cache' = w.ioc_cache
    /\ redis_client' = w.redis_client
    /\ redis_store' = w.redis_store
    /\ api_sources' = w.api_sources
    /\ api_keys' = w.api_keys
    /\ ioc_queries' = w.ioc_queries
    /\ database_url' = w.database_url
    /\ watchlists' = w.watchlists
    /\ items' = w.items
    /\ check_history' = w.check_history
    /\ alerts' = w.alerts

Users == {"u1", "u2"}

SourceFilters == {<<>>, <<<<"AbuseIPDB">>>>, <<<<"threatfox">>>>}

Payloads ==
    {[ioc_type |-> ind[1], ioc_value |-> ind[2], sources |-> f] :
        ind \in Indicators, f \in SourceFilters}

\* POST /ioc/query (routes/ioc.py): query_ioc(current_user.id, payload)
\* a handler ends: its writes are committed and its trace is kept
Handled(op, env, c) ==
    /\ Commit(c.w)
    /\ lastOp' = [op |-> op, queries |-> c.queries, checked |-> c.checked,
                   env |-> env]
    /\ UNCHANGED <<now, riskVars, threadVars, cacheCall, lastSet>>

\* the outcome of a single query, as a handler's outcome
OneQuery(q) == [w |-> q.w, checked |-> <<>>, queries |-> <<q.trace>>]

RequestQuery(user_id, payload, env) ==
    Handled("query", env, OneQuery(QueryIoc(World, now, user_id, payload, FALSE, env)))

(***************************************************************************)
(* One query whose sources answer over HTTP: the adapter dict of each      *)
(* source is what DynamicAPIClient.query makes of the HTTP outcome, with   *)
(* the risk_score_path every seeded source has (seed_predefined_apis.py).  *)
(***************************************************************************)
SignalEnvs ==
    {[out |-> [n \in SeqToSet(SourceOrder) |->
                  AdapterOutcome(ClientQuery(TRUE, http[n]))],
      http |-> http, redis_fails |-> FALSE, db_fails |-> FALSE] :
        http \in [SeqToSet(SourceOrder) -> HttpOutcomes]}

InitSignal ==
    /\ results = <<>>
    /\ overall_risk = <<>>
    /\ alertCall = NoAlertCall
    /\ clientCall = NoClientCall
    /\ levelCall = NoLevelCall
    /\ NoThreads
    /\ InitCacheVars
    /\ redis_client = TRUE
    /\ redis_store = <<>>
    /\ api_sources = [n \in SeqToSet(SourceOrder) |-> ApiSourceRow(n, TRUE)]
    /\ api_keys = [k \in SeqToSet(KeyOrder) |->
                      IF k = "k1"
                      THEN ApiKeyRow("u1", "abuseipdb", "valid", TRUE, "auto")
                      ELSE ApiKeyRow("u2", "abuseipdb", "valid", FALSE, "manual")]
    /\ ioc_queries = <<>>
    /\ database_url = "sqlite"
    /\ watchlists = <<>>
    /\ items = <<>>
    /\ check_history = <<>>
    /\ alerts = <<>>
    /\ lastOp = NoOp

SignalQuery ==
    /\ lastOp.op = "none"
    /\ \E env \in SignalEnvs :
          RequestQuery("u1", [ioc_type |-> "ip", ioc_value |-> "8.8.8.8",
                              sources |-> <<>>], env)

NextSignal == SignalQuery

SpecSignal == InitSignal /\ [][NextSignal]_vars

(***************************************************************************)
(* One query against every deployment, with every way a source can answer. *)
(***************************************************************************)
RichOutcomes ==
    {Outcome("success", <<9>>), Outcome("success", <<1>>),
     Outcome("success", <<>>), Outcome("timeout", <<>>),
     Outcome("error", <<>>), Outcome("raises", <<>>)}

RichEnvs ==
    [out : [SeqToSet(SourceOrder) -> RichOutcomes],
     redis_fails : BOOLEAN, db_fails : BOOLEAN]

\* k1 is a credential of u1 for abuseipdb
RichK1 ==
    {ApiKeyRow("u1", "abuseipdb", "valid", TRUE, "manual"),
     ApiKeyRow("u1", "abuseipdb", "blank", TRUE, "auto"),
     ApiKeyRow("u1", "abuseipdb", "undecryptable", TRUE, "manual"),
     ApiKeyRow("u1", "abuseipdb", "", TRUE, "manual"),
     ApiKeyRow("u1", "abuseipdb", "encrypted_blank", TRUE, "manual"),
     ApiKeyRow("u1", "abuseipdb", "valid", FALSE, "manual")}

\* k2 is a credential of u2
RichK2 ==
    {ApiKeyRow("u2", "abuseipdb", "valid", FALSE, "manual"),
     ApiKeyRow("u2", "abuseipdb", "valid", TRUE, "manual"),
     ApiKeyRow("u2", "threatfox", "valid", TRUE, "auto")}

SourceFlags == {<<TRUE, TRUE>>, <<FALSE, TRUE>>, <<TRUE, FALSE>>}

InitQuery ==
    /\ results = <<>>
    /\ overall_risk = <<>>
    /\ alertCall = NoAlertCall
    /\ clientCall = NoClientCall
    /\ levelCall = NoLevelCall
    /\ NoThreads
    /\ InitCacheVars
    /\ redis_client \in BOOLEAN
    /\ redis_store = <<>>
    /\ \E fl \in SourceFlags :
          api_sources = [n \in SeqToSet(SourceOrder) |->
                            ApiSourceRow(n, IF n = "abuseipdb" THEN fl[1] ELSE fl[2])]
    /\ \E r1 \in RichK1, r2 \in RichK2 :
          api_keys = [k \in SeqToSet(KeyOrder) |-> IF k = "k1" THEN r1 ELSE r2]
    /\ ioc_queries = <<>>
    /\ database_url = "sqlite"
    /\ watchlists = <<>>
    /\ items = <<>>
    /\ check_history = <<>>
    /\ alerts = <<>>
    /\ lastOp = NoOp

FirstQuery ==
    /\ lastOp.op = "none"
    /\ \E user_id \in Users, payload \in Payloads, env \in RichEnvs :
          RequestQuery(user_id, payload, env)

NextQuery == FirstQuery

SpecQuery == InitQuery /\ [][NextQuery]_vars

(***************************************************************************)
(* The service: on-demand queries, scheduler ticks and manual checks as    *)
(* time passes.                                                            *)
(***************************************************************************)
\* the scheduler job: one run of _check_all_watchlists
SchedulerTick(env) ==
    Handled("tick", env, CheckAllWatchlists(World, now, env))

\* POST /watchlist/items/{id}/check by the owner of the watchlist
ManualCheck(id, env) ==
    Handled("manual", env,
        AddCheck(Checked(World), id,
            ManualCheckWatchlistItem(World, now, id,
                watchlists[items[id].watchlist_id].user_id, env)))

ServicePoints == {0, 300}

Tick ==
    /\ AdvanceClock(ServicePoints)
    /\ UNCHANGED <<ioc_cache, cacheCall, lastSet, riskVars, threadVars, queryVars>>

LeanOuts ==
    {[n \in SeqToSet(SourceOrder) |-> Outcome("success", <<9>>)],
     [n \in SeqToSet(SourceOrder) |-> Outcome("error", <<>>)]}

LeanEnvs ==
    {[out |-> o, redis_fails |-> FALSE, db_fails |-> FALSE] : o \in LeanOuts}
        \cup {[out |-> [n \in SeqToSet(SourceOrder) |-> Outcome("success", <<9>>)],
               redis_fails |-> TRUE, db_fails |-> FALSE]}

LeanPayloads ==
    {[ioc_type |-> "IP", ioc_value |-> "8.8.8.8", sources |-> <<<<"threatfox">>>>],
     [ioc_type |-> "url", ioc_value |-> "HTTP://EVIL.TEST/A", sources |-> <<>>]}

\* the deployments: (k1 is_active, k1 update_mode, abuseipdb is_active,
\* redis connected, database dialect)
Registries ==
    {<<TRUE, "auto", TRUE, TRUE, "postgresql">>,
     <<TRUE, "manual", TRUE, FALSE, "sqlite">>,
     <<FALSE, "auto", TRUE, TRUE, "sqlite">>,
     <<TRUE, "auto", FALSE, FALSE, "postgresql">>}

WatchlistRow(user_id, is_active, notification_enabled, check_interval) ==
    [user_id |-> user_id, is_active |-> is_active,
     notification_enabled |-> notification_enabled,
     check_interval |-> check_interval]

ItemRow(watchlist_id, ioc_type, ioc_value, risk_threshold) ==
    [watchlist_id |-> watchlist_id, ioc_type |-> ioc_type,
     ioc_value |-> ioc_value, risk_threshold |-> risk_threshold,
     is_active |-> TRUE, last_check_date |-> <<>>, last_risk_score |-> None,
     last_status |-> <<>>]

InitWatchlists ==
    /\ watchlists = [wl \in SeqToSet(WatchlistOrder) |->
                        IF wl = "w1" THEN WatchlistRow("u1", TRUE, TRUE, 60)
                        ELSE WatchlistRow("u2", TRUE, TRUE, 30)]
    /\ items = [id \in SeqToSet(ItemOrder) |->
                   CASE id = "i1" -> ItemRow("w1", "ip", "8.8.8.8", <<"high">>)
                     [] id = "i2" -> ItemRow("w1", "url", "http://evil.test/a", <<>>)
                     [] OTHER -> ItemRow("w2", "IP", "8.8.8.8", <<"low">>)]
    /\ check_history = <<>>
    /\ alerts = <<>>

Init ==
    /\ results = <<>>
    /\ overall_risk = <<>>
    /\ alertCall = NoAlertCall
    /\ clientCall = NoClientCall
    /\ levelCall = NoLevelCall
    /\ NoThreads
    /\ InitCacheVars
    /\ redis_store = <<>>
    /\ \E reg \in Registries :
          /\ redis_client = reg[4]
          /\ database_url = reg[5]
          /\ api_sources = [n \in SeqToSet(SourceOrder) |->
                               ApiSourceRow(n, n = "abuseipdb" => reg[3])]
          /\ api_keys = [k \in SeqToSet(KeyOrder) |->
                            IF k = "k1"
                            THEN ApiKeyRow("u1", "abuseipdb", "valid", reg[1], reg[2])
                            ELSE ApiKeyRow("u2", "abuseipdb", "valid", FALSE, "auto")]
    /\ ioc_queries = <<>>
    /\ InitWatchlists
    /\ lastOp = NoOp

Query ==
    \E payload \in LeanPayloads, env \in LeanEnvs :
      \E user_id \in {IF payload.sources = <<>> THEN "u1" ELSE "u2"} :
        RequestQuery(user_id, payload, env)

MaxChecks == 2

Next ==
    \/ Query
    \/ \E env \in LeanEnvs :
          Len(check_history) < MaxChecks /\ SchedulerTick(env)
    \/ \E id \in {"i1", "i3"}, env \in LeanEnvs :
          Len(check_history) < MaxChecks /\ ManualCheck(id, env)
    \/ Tick

Spec == Init /\ [][Next]_vars

(***************************************************************************)
(* The two cache tiers over ten minutes: queries of one indicator while    *)
(* the redis server fails for a call, drops a key or holds a value that    *)
(* does not parse.                                                         *)
(***************************************************************************)
TierPoints == {0, 200, 360, 700}

TierEnvs ==
    {[out |-> o, redis_fails |-> f, db_fails |-> FALSE] :
        o \in LeanOuts, f \in BOOLEAN}

TierPayload == [ioc_type |-> "ip", ioc_value |-> "8.8.8.8", sources |-> <<>>]

InitTiers ==
    /\ results = <<>>
    /\ overall_risk = <<>>
    /\ alertCall = NoAlertCall
    /\ clientCall = NoClientCall
    /\ levelCall = NoLevelCall
    /\ NoThreads
    /\ InitCacheVars
    /\ redis_client \in BOOLEAN
    /\ redis_store = <<>>
    /\ api_sources = [n \in SeqToSet(SourceOrder) |-> ApiSourceRow(n, TRUE)]
    /\ api_keys = [k \in SeqToSet(KeyOrder) |->
                      IF k = "k1"
                      THEN ApiKeyRow("u1", "abuseipdb", "valid", TRUE, "auto")
                      ELSE ApiKeyRow("u2", "abuseipdb", "valid", FALSE, "auto")]
    /\ ioc_queries = <<>>
    /\ database_url = "sqlite"
    /\ watchlists = <<>>
    /\ items = <<>>
    /\ check_history = <<>>
    /\ alerts = <<>>
    /\ lastOp = NoOp

TierQuery ==
    \E env \in TierEnvs : RequestQuery("u1", TierPayload, env)

\* the redis server drops a key before it expires (eviction, a flush)
RedisEvict ==
    /\ \E key \in DOMAIN redis_store :
          redis_store' = DictDel(redis_store, key)
    /\ lastOp' = [NoOp EXCEPT !.op = "evict"]
    /\ UNCHANGED <<now, ioc_cache, cacheCall, lastSet, riskVars, threadVars,
                   redis_client, api_sources, api_keys, ioc_queries,
                   database_url, watchlists, items, check_history, alerts>>

\* the value under a key is a dict that IOCQueryResponse does not accept
RedisCorrupt ==
    /\ \E key \in DOMAIN redis_store :
          /\ Parsable(redis_store[key].value)
          /\ redis_store' =
                [redis_store EXCEPT ![key].value.queried_at = <<"str", -1>>]
    /\ lastOp' = [NoOp EXCEPT !.op = "corrupt"]
    /\ UNCHANGED <<now, ioc_cache, cacheCall, lastSet, riskVars, threadVars,
                   redis_client, api_sources, api_keys, ioc_queries,
                   database_url, watchlists, items, check_history, alerts>>

TierClock ==
    /\ AdvanceClock(TierPoints)
    /\ UNCHANGED <<ioc_cache, cacheCall, lastSet, riskVars, threadVars, queryVars>>

NextTiers == TierQuery \/ RedisEvict \/ RedisCorrupt \/ TierClock

SpecTiers == InitTiers /\ [][NextTiers]_vars

(***************************************************************************)
(* The scheduler over an hour: ticks and manual checks around the          *)
(* check interval of watchlist w1 (60 minutes), on either database.        *)
(***************************************************************************)
SchedPoints == {0, 60, 3600, 3660}

SchedEnvs ==
    {[out |-> o, redis_fails |-> FALSE, db_fails |-> FALSE] : o \in LeanOuts}

InitSched ==
    /\ results = <<>>
    /\ overall_risk = <<>>
    /\ alertCall = NoAlertCall
    /\ clientCall = NoClientCall
    /\ levelCall = NoLevelCall
    /\ NoThreads
    /\ InitCacheVars
    /\ redis_client = FALSE
    /\ redis_store = <<>>
    /\ api_sources = [n \in SeqToSet(SourceOrder) |-> ApiSourceRow(n, TRUE)]
    /\ api_keys = [k \in SeqToSet(KeyOrder) |->
                      IF k = "k1"
                      THEN ApiKeyRow("u1", "abuseipdb", "valid", TRUE, "auto")
                      ELSE ApiKeyRow("u2", "abuseipdb", "valid", FALSE, "auto")]
    /\ ioc_queries = <<>>
    /\ database_url \in {"sqlite", "postgresql"}
    /\ InitWatchlists
    /\ lastOp = NoOp

SchedClock ==
    /\ AdvanceClock(SchedPoints)
    /\ UNCHANGED <<ioc_cache, cacheCall, lastSet, riskVars, threadVars, queryVars>>

MaxSchedChecks == 3

NextSched ==
    \/ \E env \in SchedEnvs :
          Len(check_history) < MaxSchedChecks /\ SchedulerTick(env)
    \/ \E id \in SeqToSet(ItemOrder), env \in SchedEnvs :
          Len(check_history) < MaxSchedChecks /\ ManualCheck(id, env)
    \/ SchedClock

SpecSched == InitSched /\ [][NextSched]_vars

(***************************************************************************)
(* The watchlists: ticks and manual checks over watchlists that the        *)
(* scheduler may or may not select, on either database.                    *)
(***************************************************************************)
WatchPoints == {0, 3600}

\* the second watchlist: below the floor, inactive, without notifications,
\* or selected like the first
W2Rows ==
    {WatchlistRow("u2", TRUE, TRUE, 30), WatchlistRow("u2", FALSE, TRUE, 60),
     WatchlistRow("u2", TRUE, FALSE, 60), WatchlistRow("u2", TRUE, TRUE, 60)}

InitWatch ==
    /\ results = <<>>
    /\ overall_risk = <<>>
    /\ alertCall = NoAlertCall
    /\ clientCall = NoClientCall
    /\ levelCall = NoLevelCall
    /\ NoThreads
    /\ InitCacheVars
    /\ redis_client = FALSE
    /\ redis_store = <<>>
    /\ api_sources = [n \in SeqToSet(SourceOrder) |-> ApiSourceRow(n, TRUE)]
    /\ api_keys = [k \in SeqToSet(KeyOrder) |->
                      IF k = "k1"
                      THEN ApiKeyRow("u1", "abuseipdb", "valid", TRUE, "auto")
                      ELSE ApiKeyRow("u2", "abuseipdb", "valid", FALSE, "auto")]
    /\ ioc_queries = <<>>
    /\ database_url \in {"sqlite", "postgresql"}
    /\ \E row \in W2Rows :
          watchlists = [wl \in SeqToSet(WatchlistOrder) |->
                           IF wl = "w1" THEN WatchlistRow("u1", TRUE, TRUE, 60)
                           ELSE row]
    /\ items = [id \in SeqToSet(ItemOrder) |->
                   CASE id = "i1" -> ItemRow("w1", "ip", "8.8.8.8", <<"high">>)
                     [] id = "i2" -> ItemRow("w1", "url", "http://evil.test/a", <<>>)
                     [] OTHER -> ItemRow("w2", "IP", "8.8.8.8", <<"low">>)]
    /\ check_history = <<>>
    /\ alerts = <<>>
    /\ lastOp = NoOp

\* the sources answer high, medium or with an error
WatchEnvs ==
    SchedEnvs \cup
        {[out |-> [n \in SeqToSet(SourceOrder) |-> Outcome("success", <<5>>)],
          redis_fails |-> FALSE, db_fails |-> FALSE]}

WatchClock ==
    /\ AdvanceClock(WatchPoints)
    /\ UNCHANGED <<ioc_cache, cacheCall, lastSet, riskVars, threadVars, queryVars>>

MaxWatchChecks == 3

NextWatch ==
    \/ \E env \in WatchEnvs :
          Len(check_history) < MaxWatchChecks /\ SchedulerTick(env)
    \/ \E id \in {"i1", "i3"}, env \in WatchEnvs :
          Len(check_history) < MaxWatchChecks /\ ManualCheck(id, env)
    \/ WatchClock

SpecWatch == InitWatch /\ [][NextWatch]_vars

(***************************************************************************)
(* The threads: the job of the BackgroundScheduler and the request threads *)
(* that run the manual check (a sync route), step by step.  A check is in  *)
(* flight from its query_ioc to its commit.                                *)
(***************************************************************************)
\* a step of a thread: the tables it wrote and the step it was
Stepped(op, w) ==
    /\ Commit(w)
    /\ lastOp' = [NoOp EXCEPT !.op = op]
    /\ UNCHANGED <<now, riskVars, cacheCall, lastSet>>

MaxStarts == 2

\* variant: start() without the is_running guard
Start_Unguarded ==
    /\ scheduler.enabled /\ scheduler.importable
    /\ scheduler.starts < MaxStarts
    /\ scheduler' = [scheduler EXCEPT !.is_running = TRUE, !.jobs = @ + 1,
                                      !.starts = @ + 1]
    /\ Stepped("start", World)
    /\ UNCHANGED requests

\* WatchlistScheduler.start, called by the startup event of main.py; the
\* import of the module fails where annotations are evaluated eagerly
\* (IOCStatus and RiskThreshold are imported inside the functions only)
Start ==
    /\ scheduler.enabled /\ scheduler.importable
    /\ scheduler.starts < MaxStarts
    /\ scheduler' =
          IF scheduler.is_running
          THEN [scheduler EXCEPT !.starts = @ + 1]
          ELSE [scheduler EXCEPT !.is_running = TRUE, !.jobs = @ + 1,
                                 !.starts = @ + 1]
    /\ Stepped("start", World)
    /\ UNCHANGED requests

\* the items a pass goes through: per selected watchlist above the floor,
\* its active items (scheduler.py lines 67-103)
RECURSIVE Worklist(_, _)
Worklist(w, i) ==
    IF i > Len(WatchlistOrder) THEN <<>>
    ELSE (IF /\ w.watchlists[WatchlistOrder[i]].is_active
             /\ w.watchlists[WatchlistOrder[i]].notification_enabled
             /\ w.watchlists[WatchlistOrder[i]].check_interval
                    >= watchlist_scheduler_min_check_interval
          THEN ActiveItems(w, WatchlistOrder[i]) ELSE <<>>)
         \o Worklist(w, i + 1)

\* a pass of _check_all_watchlists: the items still to go through and the
\* check of _check_watchlist_item that is in flight
Pass(worklist) == [worklist |-> worklist, current |-> <<>>]

\* the passes, without those that have gone through their items
Running(passes) ==
    LET busy(ps) == ps.worklist # <<>> \/ ps.current # <<>>
    IN  SelectSeq(passes, busy)

\* the interval trigger fires; a job runs at most one instance at a time
\* (add_job with the default max_instances), the run is skipped otherwise
Fire ==
    /\ scheduler.is_running
    /\ IF Len(scheduler.passes) < scheduler.jobs
       THEN /\ scheduler' = [scheduler EXCEPT !.passes =
                                Running(Append(@, Pass(Worklist(World, 1))))]
            /\ Stepped("fire", World)
       ELSE /\ UNCHANGED scheduler
            /\ Stepped("skipped", World)
    /\ UNCHANGED requests

\* the checks in flight and those recorded
Checks ==
    Len(check_history)
        + Cardinality({k \in 1..Len(scheduler.passes) :
                          scheduler.passes[k].current # <<>>})
        + Cardinality({r \in RequestThreads : requests[r] # <<>>})

MaxThreadChecks == 2

\* the pass reaches its next item: the gate, then query_ioc
\* (scheduler.py lines 111-126 and 141-143)
PassQuery(k, env, id, gate, q) ==
    /\ gate = "check" => Checks < MaxThreadChecks
    /\ scheduler' = [scheduler EXCEPT !.passes =
          Running([@ EXCEPT ![k] =
             CASE gate = "check" ->
                     [@ EXCEPT !.current = <<[id |-> id, trace |-> q.trace]>>]
               [] gate = "skip" -> [@ EXCEPT !.worklist = Tail(@)]
               [] OTHER ->
                     LET other(j) == items[j].watchlist_id
                                        # items[id].watchlist_id
                     IN  [@ EXCEPT !.worklist = SelectSeq(@, other)]])]
    /\ Stepped("gate", IF gate = "check" THEN q.w ELSE World)
    /\ UNCHANGED requests

PassNext(k, env) ==
    /\ scheduler.passes[k].current = <<>>
    /\ scheduler.passes[k].worklist # <<>>
    /\ PassQuery(k, env, Head(scheduler.passes[k].worklist),
          ShouldCheck(items[Head(scheduler.passes[k].worklist)],
              watchlists[items[Head(scheduler.passes[k].worklist)].watchlist_id],
              now, database_url),
          QueryIoc(World, now,
              watchlists[items[Head(scheduler.passes[k].worklist)].watchlist_id].user_id,
              ItemRequest(items[Head(scheduler.passes[k].worklist)]), TRUE, env))

\* the pass records the check in flight (scheduler.py lines 145-200)
PassRecord(k) ==
    /\ scheduler.passes[k].current # <<>>
    /\ scheduler' = [scheduler EXCEPT !.passes =
          Running([@ EXCEPT ![k] = [worklist |-> Tail(@.worklist),
                                    current |-> <<>>]])]
    /\ Stepped("recorded",
          SchedulerRecord([w |-> World,
                           trace |-> scheduler.passes[k].current[1].trace],
                          now, scheduler.passes[k].current[1].id).w)
    /\ UNCHANGED requests

\* a request thread enters check_watchlist_item for the owner and queries
\* (watchlist_service.py lines 233-277); nothing keeps it from an item
\* that another thread is checking
RequestQueried(r, id, q) ==
    /\ requests' = [requests EXCEPT ![r] = <<[id |-> id, trace |-> q.trace]>>]
    /\ Stepped("queried", q.w)
    /\ UNCHANGED scheduler

RequestCheck(r, id, env) ==
    /\ requests[r] = <<>>
    /\ Checks < MaxThreadChecks
    /\ RequestQueried(r, id,
          QueryIoc(World, now, watchlists[items[id].watchlist_id].user_id,
                   ItemRequest(items[id]), FALSE, env))

\* the request thread records its check (watchlist_service.py lines 279-335)
RequestRecord(r) ==
    /\ requests[r] # <<>>
    /\ requests' = [requests EXCEPT ![r] = <<>>]
    /\ Stepped("recorded",
          ServiceRecord([w |-> World, trace |-> requests[r][1].trace], now,
                        requests[r][1].id,
                        watchlists[items[requests[r][1].id].watchlist_id].user_id).w)
    /\ UNCHANGED scheduler

ThreadPoints == {0, 3600}

ThreadClock ==
    /\ AdvanceClock(ThreadPoints)
    /\ UNCHANGED <<ioc_cache, cacheCall, lastSet, riskVars, threadVars, queryVars>>

\* the deployment: watchlist_scheduler_enabled and the Python that runs it
InitThreads ==
    /\ results = <<>>
    /\ overall_risk = <<>>
    /\ alertCall = NoAlertCall
    /\ clientCall = NoClientCall
    /\ levelCall = NoLevelCall
    /\ \E enabled \in BOOLEAN, importable \in BOOLEAN :
          scheduler = [enabled |-> enabled, importable |-> importable,
                       is_running |-> FALSE, jobs |-> 0, starts |-> 0,
                       passes |-> <<>>]
    /\ requests = [r \in RequestThreads |-> <<>>]
    /\ InitCacheVars
    /\ redis_client = FALSE
    /\ redis_store = <<>>
    /\ api_sources = [n \in SeqToSet(SourceOrder) |-> ApiSourceRow(n, TRUE)]
    /\ api_keys = [k \in SeqToSet(KeyOrder) |->
                      IF k = "k1"
                      THEN ApiKeyRow("u1", "abuseipdb", "valid", TRUE, "auto")
                      ELSE ApiKeyRow("u2", "abuseipdb", "valid", FALSE, "auto")]
    /\ ioc_queries = <<>>
    /\ database_url \in {"sqlite", "postgresql"}
    /\ InitWatchlists
    /\ lastOp = NoOp

NextThreads ==
    \/ Start
    \/ Fire
    \/ \E k \in 1..Len(scheduler.passes), env \in SchedEnvs : PassNext(k, env)
    \/ \E k \in 1..Len(scheduler.passes) : PassRecord(k)
    \/ \E r \in RequestThreads, id \in {"i1", "i3"}, env \in SchedEnvs :
          RequestCheck(r, id, env)
    \/ \E r \in RequestThreads : RequestRecord(r)
    \/ ThreadClock

SpecThreads == InitThreads /\ [][NextThreads]_vars

(***************************************************************************)
(* Properties of the aggregation rule (checked under SpecRisk).            *)
(***************************************************************************)
ValidSignals(rs) ==
    LET v == SelectSeq(rs, IsValidResult)
    IN  [i \in 1..Len(v) |-> v[i].risk_score[1]]

RECURSIVE SumTenths(_)
SumTenths(xs) == IF xs = <<>> THEN 0 ELSE Head(xs) + SumTenths(Tail(xs))

\* the level of the exact average A = SumTenths/(10 n): A >= 0.8 iff S >= 8n
ExactLevel(xs) ==
    LET S == SumTenths(xs)
        n == Len(xs)
    IN  IF S >= 8 * n THEN "high"
        ELSE IF S >= 5 * n THEN "medium"
        ELSE IF S >= 2 * n THEN "low"
        ELSE "clean"

\* C1: whenever at least one result is a success with a signal, the verdict
\* is the level of the exact average A of those signals: high for A >= 0.8,
\* medium for 0.5 <= A < 0.8, low for 0.2 <= A < 0.5, clean below 0.2.
C1_VerdictIsLevelOfAverage ==
    (overall_risk # <<>> /\ ValidSignals(results) # <<>>)
        => overall_risk[1] = ExactLevel(ValidSignals(results))

C3_AllSkippedIsNone ==
    (/\ overall_risk # <<>>
     /\ results # <<>>
     /\ \A i \in 1..Len(results) :
            results[i].status \in {"skipped", "not_supported"})
        => overall_risk[1] = None

(***************************************************************************)
(* Properties of the process-local cache (checked under SpecCache).        *)
(***************************************************************************)
\* C9: a get, by any letter-case variant of the kind and value of the latest
\* set, returns that result while the entry is at most ttl old and nothing
\* once it is older; a get that returns nothing leaves no entry for the key.
C9_CacheRoundTrip ==
    cacheCall.op = "get" =>
        LET key == <<Lower(cacheCall.ioc_type), Lower(cacheCall.ioc_value)>>
        IN  /\ (key \in DOMAIN lastSet /\ now - lastSet[key].at <= ttl)
                   => cacheCall.ret = <<lastSet[key].response>>
            /\ (key \in DOMAIN lastSet /\ now - lastSet[key].at > ttl)
                   => (cacheCall.ret = <<>> /\ key \notin DOMAIN ioc_cache)
            /\ key \notin DOMAIN lastSet => cacheCall.ret = <<>>

\* a result stored under "ip" is read back through "IP" exactly ttl later
C9_WitnessHit ==
    /\ cacheCall.op = "get"
    /\ cacheCall.ioc_type = "IP"
    /\ cacheCall.ret # <<>>
    /\ cacheCall.ret[1].ioc_type = "ip"
    /\ now - cacheCall.ret[1].queried_at = ttl

(***************************************************************************)
(* Properties of one query (checked under SpecQuery).                      *)
(***************************************************************************)
ProducedOutput(response) ==
    \E i \in 1..Len(response.queried_sources) :
        response.queried_sources[i].source # "system"

NoValidResult(response) ==
    \A i \in 1..Len(response.queried_sources) :
        ~(/\ response.queried_sources[i].status = "success"
          /\ response.queried_sources[i].risk_score # <<>>)

\* C4: in every response of query_ioc the verdict is null only when no
\* source produced output, and it is "unknown" whenever sources produced
\* results of which none is a success with a numeric signal.
C4_NullOnlyWithoutOutput ==
    \A i \in 1..Len(lastOp.queries) :
        LET response == lastOp.queries[i].response
        IN  /\ response.overall_risk = None => ~ProducedOutput(response)
            /\ (ProducedOutput(response) /\ NoValidResult(response))
                   => response.overall_risk = "unknown"

\* whether the orchestrator gets as far as the adapter for an entry
Callable(e, ioc_type) ==
    /\ Supports(api_sources[e.source], ioc_type)
    /\ (e.key # <<>> /\ api_sources[e.source].authentication_type # "none")
           => api_keys[e.key[1]].api_key = "valid"

\* the status an entry must end with, given what its source did
ExpectedStatus(e, ioc_type, out) ==
    IF ~Supports(api_sources[e.source], ioc_type) THEN "skipped"
    ELSE IF ~Callable(e, ioc_type) THEN "error"
    ELSE IF out[e.source].status = "raises" THEN "error"
    ELSE out[e.source].status

\* C5: a query that reaches fan-out returns one result per eligible entry,
\* in order, each with the status its own source earned, and the adapter is
\* invoked for every entry that can be invoked, however the others fail.
C5_OneResultPerEligibleSource ==
    \A i \in 1..Len(lastOp.queries) :
        LET q  == lastOp.queries[i]
            rs == q.response.queried_sources
            can(e) == Callable(e, q.payload.ioc_type)
        IN  (q.resolved /\ q.eligible # <<>>) =>
               /\ Len(rs) = Len(q.eligible)
               /\ \A j \in 1..Len(rs) :
                     /\ rs[j].source = q.eligible[j].source
                     /\ rs[j].status = ExpectedStatus(q.eligible[j],
                                           q.payload.ioc_type, lastOp.env.out)
               /\ q.calls = SelectSeq(q.eligible, can)

\* the first of two sources raises, the second is still called and answers
C5_Witness ==
    /\ lastOp.op = "query"
    /\ Len(lastOp.queries[1].eligible) = 2
    /\ Len(lastOp.queries[1].calls) = 2
    /\ lastOp.env.out[lastOp.queries[1].eligible[1].source].status = "raises"
    /\ lastOp.queries[1].response.queried_sources[1].status = "error"
    /\ lastOp.queries[1].response.queried_sources[2].status = "success"

\* entry e pairs a source that requires authentication and supports the
\* type with a credential whose secret is missing, blank or does not
\* decrypt to a secret
NoUsableSecret(e, ioc_type) ==
    /\ e.key # <<>>
    /\ api_sources[e.source].authentication_type # "none"
    /\ Supports(api_sources[e.source], ioc_type)
    /\ api_keys[e.key[1]].api_key \in StoredSecrets \ {"valid"}

EligiblePair(e, auto_mode_only) ==
    /\ api_sources[e.source].is_active
    /\ e.key = <<>> => api_sources[e.source].authentication_type = "none"
    /\ e.key # <<>> =>
          /\ api_keys[e.key[1]].is_active
          /\ api_keys[e.key[1]].api_source = e.source
          /\ auto_mode_only => api_keys[e.key[1]].update_mode = "auto"

\* C6: every adapter invocation of a query uses an active credential of an
\* active descriptor, in auto mode when automatic_mode_only is set; a
\* scheduler tick queries with automatic_mode_only set, invokes no adapter
\* with a manual-mode credential and changes the last_used of none.
C6_OnlyEligiblePairsAreInvoked ==
    [][now' = now =>
         /\ \A i \in 1..Len(lastOp'.queries) :
               LET q == lastOp'.queries[i]
               IN  /\ \A j \in 1..Len(q.calls) :
                         EligiblePair(q.calls[j], q.auto_mode_only)
                   /\ lastOp'.op = "tick" => q.auto_mode_only
         /\ lastOp'.op = "tick" =>
               \A k \in DOMAIN api_keys :
                   api_keys[k].update_mode = "manual"
                       => api_keys'[k].last_used = api_keys[k].last_used]_vars

\* a tick has called an adapter while the active credential k1 is in manual
\* mode, and k1 was not used
C6_Witness ==
    /\ lastOp.op = "tick"
    /\ api_keys["k1"].is_active
    /\ api_keys["k1"].update_mode = "manual"
    /\ api_keys["k1"].last_used = <<>>
    /\ \E i \in 1..Len(lastOp.queries) : lastOp.queries[i].calls # <<>>

\* a fan-out for the key of q was persisted at most ttl before q
FannedOutWithinTtl(q) ==
    \E j \in 1..Len(ioc_queries) :
        /\ MakeKey(ioc_queries[j].ioc_type, ioc_queries[j].ioc_value)
              = MakeKey(q.payload.ioc_type, q.payload.ioc_value)
        /\ q.at - ioc_queries[j].query_date <= ttl

\* C7: once a query for an indicator has fanned out, every query for the
\* same indicator (in any letter case, by any caller, with any parameters)
\* made at most ttl later issues no adapter call.
C7_NoCallsWithinTtl ==
    [][now' = now =>
         \A i \in 1..Len(lastOp'.queries) :
             FannedOutWithinTtl(lastOp'.queries[i])
                 => lastOp'.queries[i].calls = <<>>]_vars

\* a request by u2 for "IP", restricted to one source, is answered exactly
\* ttl after the fan-out that another caller caused for "ip"
C7_Witness ==
    /\ lastOp.op = "query"
    /\ lastOp.queries[1].payload.ioc_type = "IP"
    /\ lastOp.queries[1].hit # "none"
    /\ lastOp.queries[1].calls = <<>>
    /\ lastOp.queries[1].response.ioc_type = "ip"
    /\ lastOp.queries[1].at - lastOp.queries[1].response.queried_at = ttl

\* C8: query_ioc looks in the shared tier first and in the process-local
\* tier only when the shared tier has nothing; a hit in either tier is
\* returned without source resolution, adapter call, last_used update or
\* persisted record, and a process-local hit is written back to the shared
\* tier.
C8_CacheHitReturnsImmediately ==
    [][now' = now =>
         /\ \A i \in 1..Len(lastOp'.queries) :
               LET q == lastOp'.queries[i]
               IN  /\ q.lookups[1] = "redis"
                   /\ q.hit = "redis" => Len(q.lookups) = 1
                   /\ q.hit # "none" =>
                         ~q.resolved /\ q.calls = <<>> /\ ~q.saved
         /\ lastOp'.op = "query" =>
               LET q    == lastOp'.queries[1]
                   key  == RedisKey(q.payload)
                   mkey == MakeKey(q.payload.ioc_type, q.payload.ioc_value)
                   up   == redis_client /\ ~lastOp'.env.redis_fails
                   inRedis  == up /\ key \in DOMAIN redis_store
                                  /\ now < redis_store[key].expires
                   inMemory == mkey \in DOMAIN ioc_cache
                                  /\ now - ioc_cache[mkey].stored_at <= ttl
               IN  /\ inRedis =>
                         /\ q.hit = "redis"
                         /\ q.response = ParseResponse(redis_store[key].value)
                         /\ UNCHANGED <<api_keys, ioc_queries, ioc_cache,
                                        redis_store>>
                   /\ (~inRedis /\ inMemory) =>
                         /\ q.hit = "memory"
                         /\ q.response = ioc_cache[mkey].response
                         /\ UNCHANGED <<api_keys, ioc_queries, ioc_cache>>
                         /\ up => /\ key \in DOMAIN redis_store'
                                  /\ redis_store'[key].value = JsonDumps(q.response)
                         /\ ~up => redis_store' = redis_store
                   /\ (~inRedis /\ ~inMemory) => q.hit = "none"]_vars

\* a request answered from the process-local tier while redis is connected
\* has put the result into redis
C8_Witness ==
    /\ lastOp.op = "query"
    /\ lastOp.queries[1].hit = "memory"
    /\ redis_client
    /\ ~lastOp.env.redis_fails
    /\ RedisKey(lastOp.queries[1].payload) \in DOMAIN redis_store
    /\ redis_store[RedisKey(lastOp.queries[1].payload)].value
          = JsonDumps(lastOp.queries[1].response)
    /\ lastOp.queries[1].response.queried_at < lastOp.queries[1].at

(***************************************************************************)
(* Properties of the scheduler (checked under SpecSched).                  *)
(***************************************************************************)
Due(id) ==
    \/ items[id].last_check_date = <<>>
    \/ now - items[id].last_check_date[1]
          >= watchlists[items[id].watchlist_id].check_interval * 60

Schedulable(id) ==
    LET watchlist == watchlists[items[id].watchlist_id]
    IN  /\ items[id].is_active
        /\ watchlist.is_active
        /\ watchlist.notification_enabled
        /\ watchlist.check_interval >= watchlist_scheduler_min_check_interval

\* C10: a tick checks an active item of an active, notification-enabled
\* watchlist whose interval meets the floor if and only if the item was
\* never checked or at least check_interval minutes have passed since its
\* last check.
C10_CheckedIffDue ==
    [][(now' = now /\ lastOp'.op = "tick") =>
          \A id \in DOMAIN items :
              Schedulable(id) =>
                  ((\E j \in 1..Len(lastOp'.checked) : lastOp'.checked[j] = id)
                      <=> Due(id))]_vars

(***************************************************************************)
(* Properties of the watchlist checks (checked under SpecWatch).           *)
(***************************************************************************)
\* the scheduler selects the watchlist and its interval is not below the floor
AutoChecked(wl) ==
    /\ watchlists[wl].is_active
    /\ watchlists[wl].notification_enabled
    /\ watchlists[wl].check_interval >= watchlist_scheduler_min_check_interval

\* the rows that a step appended to a table
Appended(before, after) == SubSeq(after, Len(before) + 1, Len(after))

\* a step left item id alone: no check, no update, no history row, no alert
Untouched(id) ==
    /\ items'[id] = items[id]
    /\ \A j \in 1..Len(lastOp'.checked) : lastOp'.checked[j] # id
    /\ \A j \in 1..Len(Appended(check_history, check_history')) :
          Appended(check_history, check_history')[j].watchlist_item_id # id
    /\ \A j \in 1..Len(Appended(alerts, alerts')) :
          Appended(alerts, alerts')[j].asset_id # id

\* C11: a scheduler tick leaves alone every item of a watchlist that is
\* inactive, has notifications disabled or has a check_interval below the
\* configured minimum; such an item changes only in a manual check
C11_TickSkipsUnselectedWatchlists ==
    [][\A id \in DOMAIN items :
          ~AutoChecked(items[id].watchlist_id) =>
              /\ (now' = now /\ lastOp'.op = "tick") => Untouched(id)
              /\ items'[id] # items[id] => lastOp'.op = "manual"]_vars

\* C11 witness: a tick has checked an item of the first watchlist while the
\* never-checked item of the unselected second watchlist stayed as it was
C11_Witness ==
    /\ lastOp.op = "tick"
    /\ \E j \in 1..Len(lastOp.checked) : lastOp.checked[j] = "i1"
    /\ ~AutoChecked("w2")
    /\ items["i3"].last_check_date = <<>>

(***************************************************************************)
(* Properties of the alert policy (checked under SpecPolicy).              *)
(***************************************************************************)
\* the pairs (threshold, verdict) on which the policy triggers
TriggerPairs ==
    {<<"low", v>> : v \in {"low", "medium", "high"}}
        \cup {<<"medium", v>> : v \in {"medium", "high"}}
        \cup {<<"high", "high">>, <<"critical", "high">>}

\* C12: in the scheduler and in the service alike, the alert policy returns
\* true exactly for threshold low with verdict low, medium or high, threshold
\* medium with verdict medium or high, and threshold high or critical with
\* verdict high; never for clean, unknown, null or an item without threshold
C12_AlertPolicyTable ==
    alertCall.ret # <<>> =>
        (alertCall.ret[1] <=>
            /\ alertCall.risk_threshold # <<>>
            /\ <<alertCall.risk_threshold[1], alertCall.risk_level>> \in TriggerPairs)

\* C12 witness: the service's policy was asked about threshold high and
\* verdict medium and did not trigger
C12_Witness ==
    /\ alertCall.path = "service"
    /\ alertCall.risk_threshold = <<"high">>
    /\ alertCall.risk_level = "medium"
    /\ alertCall.ret = <<FALSE>>

(***************************************************************************)
(* Properties of what a check records (checked under SpecWatch).           *)
(***************************************************************************)
\* the rows of a table about item id
RowsOf(rows, id) ==
    LET about(r) == IF "asset_id" \in DOMAIN r THEN r.asset_id = id
                    ELSE r.watchlist_item_id = id
    IN  SelectSeq(rows, about)

\* what a verdict means for the status of an item
StatusOfVerdict(risk) ==
    CASE risk = "high" -> <<"malicious">>
      [] risk \in {"medium", "low"} -> <<"suspicious">>
      [] risk = "clean" -> <<"clean">>
      [] OTHER -> <<>>

\* the policy of C12 on the threshold of an item and a verdict
PolicyTriggers(risk_threshold, risk) ==
    /\ risk_threshold # <<>>
    /\ <<risk_threshold[1], risk>> \in TriggerPairs

\* the j-th check of a tick updated its item from its response, appended
\* one history row with the policy's flag, and one alert iff it triggers
CheckRecorded(j) ==
    LET id == lastOp'.checked[j]
        risk == lastOp'.queries[j].response.overall_risk
        trig == PolicyTriggers(items[id].risk_threshold, risk)
        rows == RowsOf(Appended(check_history, check_history'), id)
    IN  /\ items'[id].last_check_date = <<now>>
        /\ items'[id].last_risk_score = risk
        /\ items'[id].last_status = StatusOfVerdict(risk)
        /\ Len(rows) = 1
        /\ rows[1].risk_score = risk
        /\ rows[1].alert_triggered = trig
        /\ Len(RowsOf(Appended(alerts, alerts'), id)) = IF trig THEN 1 ELSE 0

\* C13: every check of an item that a scheduler tick completes sets the
\* item's last check, risk and status from the response, appends exactly one
\* history row for the item whose alert_triggered flag is the alert policy on
\* (threshold, verdict), and creates one alert iff the policy triggers; the
\* history that existed is kept as it was
C13_ScheduledCheckRecordsOnce ==
    [][(now' = now /\ lastOp'.op = "tick") =>
          /\ \A j \in 1..Len(lastOp'.checked) : CheckRecorded(j)
          /\ Len(Appended(check_history, check_history')) = Len(lastOp'.checked)
          /\ SubSeq(check_history', 1, Len(check_history)) = check_history
          /\ SubSeq(alerts', 1, Len(alerts)) = alerts]_vars

\* C13 witness: one tick checked i1 (threshold high) and i2 (no threshold)
\* with verdict high: an alert for i1, and a history row for i2 without flag
C13_Witness ==
    /\ lastOp.op = "tick"
    /\ Len(lastOp.checked) >= 2
    /\ Len(RowsOf(alerts, "i1")) = 1
    /\ Len(RowsOf(alerts, "i2")) = 0
    /\ \E j \in 1..Len(check_history) :
          /\ check_history[j].watchlist_item_id = "i2"
          /\ check_history[j].risk_score = "high"
          /\ ~check_history[j].alert_triggered

\* the gate of item id decides, without failing, that the item is checked
GateSaysCheck(id) ==
    ShouldCheck(items[id], watchlists[items[id].watchlist_id], now,
                database_url) = "check"

\* C16: in a scheduler tick, every active item of a selected watchlist
\* whose own gate says "check" is checked, whatever fails for the other
\* items of its watchlist or for the other watchlists
C16_FailuresDoNotStopTheTick ==
    [][(now' = now /\ lastOp'.op = "tick") =>
          \A id \in DOMAIN items :
              (/\ AutoChecked(items[id].watchlist_id)
               /\ items[id].is_active
               /\ GateSaysCheck(id))
                  => \E j \in 1..Len(lastOp'.checked) : lastOp'.checked[j] = id]_vars

\* what the scheduler's check of the item would have written, from the
\* state before the manual check and the response the manual check got
AsScheduled ==
    SchedulerRecord([w |-> World, trace |-> lastOp'.queries[1]], now,
                    lastOp'.checked[1]).w

\* C17: a manual check leaves the item, the history and the alerts as the
\* scheduler's check of the same item would from the same state and the
\* same response
C17_ManualRecordsLikeScheduler ==
    [][(now' = now /\ lastOp'.op = "manual") =>
          /\ items' = AsScheduled.items
          /\ check_history' = AsScheduled.check_history
          /\ alerts' = AsScheduled.alerts]_vars

(***************************************************************************)
(* Properties of the threads (checked under SpecThreads).                  *)
(***************************************************************************)
\* the threads that are between the query and the commit of a check of id
InFlight(id) ==
    {<<"pass", k>> : k \in {j \in 1..Len(scheduler.passes) :
                              /\ scheduler.passes[j].current # <<>>
                              /\ scheduler.passes[j].current[1].id = id}}
        \cup {<<"request", r>> : r \in {x \in RequestThreads :
                                          /\ requests[x] # <<>>
                                          /\ requests[x][1].id = id}}

\* C14: for every watchlist item, at most one check (of the scheduler or of
\* a request) is between the start of its query and its commit
C14_NoOverlappingChecks ==
    \A id \in DOMAIN items : Cardinality(InFlight(id)) <= 1

\* C15: at most one pass of _check_all_watchlists runs at any moment (a
\* trigger that fires during a pass starts no second one), and start() on a
\* running scheduler registers no second periodic job
C15_OnePassOneJob ==
    /\ Len(scheduler.passes) <= 1
    /\ scheduler.jobs <= 1

\* C15 witness: start() was called twice, and the trigger fired during a
\* pass that is still running: one job, one pass
C15_Witness ==
    /\ scheduler.starts = 2
    /\ scheduler.jobs = 1
    /\ lastOp.op = "skipped"
    /\ Len(scheduler.passes) = 1

(***************************************************************************)
(* Properties of the ends of a query (checked under SpecQuery).            *)
(***************************************************************************)
\* the request names no sources, or names source n
InFilter(n, sources) ==
    (sources # <<>> /\ sources[1] # <<>>)
        => n \in {Lower(m) : m \in SeqToSet(sources[1])}

\* nothing to query for q: no active credential of an active requested
\* source (in auto mode where required) and no active requested source
\* without authentication
NothingEligible(q) ==
    /\ \A k \in DOMAIN api_keys :
          ~(/\ EligiblePair([key |-> <<k>>, source |-> api_keys[k].api_source],
                            q.auto_mode_only)
            /\ InFilter(api_keys[k].api_source, q.payload.sources))
    /\ \A n \in DOMAIN api_sources :
          ~(/\ EligiblePair([key |-> <<>>, source |-> n], q.auto_mode_only)
            /\ InFilter(n, q.payload.sources))

\* C19: a query that finds nothing eligible returns a response whose only
\* result has source "system" and status "error"; it calls no adapter and
\* leaves both cache tiers and the saved queries as they were
C19_NoSourcesIsADegradedResult ==
    [][lastOp'.op = "query" =>
          \A i \in 1..Len(lastOp'.queries) :
              (lastOp'.queries[i].resolved /\ NothingEligible(lastOp'.queries[i]))
                  => /\ Len(lastOp'.queries[i].response.queried_sources) = 1
                     /\ lastOp'.queries[i].response.queried_sources[1].source
                           = "system"
                     /\ lastOp'.queries[i].response.queried_sources[1].status
                           = "error"
                     /\ lastOp'.queries[i].calls = <<>>
                     /\ ioc_cache' = ioc_cache
                     /\ redis_store' = redis_store
                     /\ ioc_queries' = ioc_queries]_vars

\* C19 witness: a query for AbuseIPDB only, whose credentials are inactive,
\* was answered by "system" while redis is connected and nothing was stored
C19_Witness ==
    /\ lastOp.op = "query"
    /\ lastOp.queries[1].payload.sources = <<<<"AbuseIPDB">>>>
    /\ lastOp.queries[1].resolved
    /\ lastOp.queries[1].eligible = <<>>
    /\ lastOp.queries[1].response.queried_sources[1].source = "system"
    /\ redis_client
    /\ redis_store = <<>>
    /\ ioc_cache = <<>>
    /\ ioc_queries = <<>>

\* the same call of query_ioc with a database that takes the write
WithSave(q) ==
    QueryIoc(World, now, q.user_id, q.payload, q.auto_mode_only,
             [lastOp'.env EXCEPT !.db_fails = FALSE])

\* C20: when saving the query fails, query_ioc still returns the response,
\* and the response and both cache tiers are what they are when the save
\* succeeds; only the saved queries differ, and nothing is saved
C20_SaveFailureIsNotRaised ==
    [][(lastOp'.op = "query" /\ lastOp'.env.db_fails) =>
          \A saved \in {WithSave(lastOp'.queries[1])} :
              /\ lastOp'.queries[1].response = saved.trace.response
              /\ ioc_cache' = saved.w.ioc_cache
              /\ redis_store' = saved.w.redis_store
              /\ api_keys' = saved.w.api_keys
              /\ ioc_queries' = ioc_queries]_vars

\* C20 witness: the save of a fanned-out query failed; the response is in
\* both cache tiers and no query was saved
C20_Witness ==
    /\ lastOp.op = "query"
    /\ lastOp.env.db_fails
    /\ lastOp.queries[1].saved
    /\ lastOp.queries[1].response.overall_risk = "high"
    /\ ioc_queries = <<>>
    /\ DOMAIN ioc_cache # {}
    /\ DOMAIN redis_store # {}

(***************************************************************************)
(* Properties of the adapter (checked under SpecClient).                   *)
(***************************************************************************)
\* the HTTP call ended in a response with a 2xx status code
Is2xx(http) ==
    http.raised = "" /\ 200 <= http.status_code /\ http.status_code < 300

\* C21: DynamicAPIClient.query returns a dict for every outcome of the HTTP
\* call: status timeout for a timeout, status error with a description for a
\* connection failure and for a response that is not 2xx, status success for
\* a 2xx response, a body that is not JSON being wrapped as text; and the
\* call leaves both cache tiers and the tables alone
C21_ClientResultForEveryOutcome ==
    [][(clientCall.ret = <<>> /\ clientCall'.ret # <<>>) =>
          /\ (clientCall.http.raised \in {"ReadTimeout", "ConnectTimeout"}
                 => clientCall'.ret[1].status = "timeout")
          /\ (clientCall.http.raised \in {"ConnectionError", "TooManyRedirects"}
                 => /\ clientCall'.ret[1].status = "error"
                    /\ clientCall'.ret[1].error # "")
          /\ ((clientCall.http.raised = "" /\ ~Is2xx(clientCall.http))
                 => /\ clientCall'.ret[1].status = "error"
                    /\ clientCall'.ret[1].error # "")
          /\ (Is2xx(clientCall.http)
                 => /\ clientCall'.ret[1].status = "success"
                    /\ (~clientCall.http.json => clientCall'.ret[1].raw = "text"))
          /\ UNCHANGED <<ioc_cache, redis_store, ioc_queries, api_keys>>]_vars

(***************************************************************************)
(* Properties of the risk signal (checked under SpecSignal).               *)
(***************************************************************************)
\* a risk signal is null or a number from 0.0 to 1.0 (in tenths)
NormalizedSignal(risk_score) ==
    risk_score = <<>> \/ (0 <= risk_score[1] /\ risk_score[1] <= 10)

\* C22: in every response of query_ioc each source result's risk_score is
\* null or lies between 0.0 and 1.0, whatever the source's response holds at
\* the risk_score_path
C22_SignalsAreNormalized ==
    lastOp.op = "query" =>
        \A i \in 1..Len(lastOp.queries[1].response.queried_sources) :
            NormalizedSignal(lastOp.queries[1].response.queried_sources[i].risk_score)

(***************************************************************************)
(* Properties of the cache tiers (checked under SpecTiers).                *)
(***************************************************************************)
\* the same call of query_ioc with a redis server that answers
WithRedis(q) ==
    QueryIoc(World, now, q.user_id, q.payload, q.auto_mode_only,
             [lastOp'.env EXCEPT !.redis_fails = FALSE])

\* the shared tier cannot answer the call: no client, a failing server, or
\* a value that does not parse
SharedTierDown(q) ==
    \/ ~redis_client
    \/ lastOp'.env.redis_fails
    \/ /\ RedisKey(q.payload) \in DOMAIN redis_store
       /\ ~Parsable(redis_store[RedisKey(q.payload)].value)

\* C23: when the shared tier cannot answer, query_ioc goes on to the
\* in-process tier and completes, and what it returns to a failing server is
\* what it returns when the server answers
C23_SharedTierFailureIsTransparent ==
    [][(now' = now /\ lastOp'.op = "query"
            /\ SharedTierDown(lastOp'.queries[1])) =>
          /\ lastOp'.queries[1].lookups = <<"redis", "memory">>
          /\ lastOp'.queries[1].hit # "redis"
          /\ (redis_client /\ lastOp'.env.redis_fails) =>
                \A working \in {WithRedis(lastOp'.queries[1])} :
                    lastOp'.queries[1].response = working.trace.response]_vars

\* C27: a response returned from either cache tier was computed at most
\* ttl seconds before it is returned
C27_CachedResultWithinTtl ==
    (lastOp.op = "query" /\ lastOp.queries[1].hit # "none") =>
        lastOp.queries[1].at - lastOp.queries[1].response.queried_at <= ttl

(***************************************************************************)
(* Properties of the persisted score (checked under SpecLevel).            *)
(***************************************************************************)
\* the score of a label by the table of the claim, in tenths
ScoreOfLabel(risk_level) ==
    CASE risk_level \in {"high", "HIGH", "High"} -> <<9>>
      [] risk_level \in {"medium", "MEDIUM", "Medium"} -> <<6>>
      [] risk_level \in {"low", "LOW", "Low"} -> <<3>>
      [] risk_level \in {"clean", "CLEAN", "Clean"} -> <<1>>
      [] risk_level \in {"unknown", "UNKNOWN", "Unknown"} -> <<5>>
      [] OTHER -> <<>>

\* C24: _get_risk_score_from_level maps high to 0.9, medium to 0.6, low to
\* 0.3, clean to 0.1 and unknown to 0.5 whatever the case of the letters,
\* and null, the empty string and any other label to null; the score saved
\* with a query is that value
C24_ScoreOfLevel ==
    /\ levelCall.ret # <<>> => levelCall.ret[1] = ScoreOfLabel(levelCall.risk_level)
    /\ \A i \in 1..Len(ioc_queries) :
          ioc_queries[i].risk_score = ScoreOfLabel(levelCall.risk_level)

\* C24 witness: the label HIGH was given 0.9 and a query with that verdict
\* was saved with it
C24_Witness ==
    /\ levelCall.risk_level = "HIGH"
    /\ levelCall.ret = <<<<9>>>>
    /\ Len(ioc_queries) = 1
    /\ ioc_queries[1].risk_score = <<9>>

(***************************************************************************)
(* Properties of the credentials a query uses (checked under SpecQuery).   *)
(***************************************************************************)
\* the table api_keys as it is without the credentials of other users
OwnKeys(keys, user_id) ==
    [k \in DOMAIN keys |->
        IF keys[k].user_id = user_id THEN keys[k]
        ELSE [keys[k] EXCEPT !.is_active = FALSE]]

\* C25: a query made for a user hands only that user's credentials to the
\* adapter, sets last_used on no credential of another user, and resolves
\* the sources it would resolve if the other users had no credential
C25_OnlyOwnCredentials ==
    lastOp.op = "query" =>
        /\ \A i \in 1..Len(lastOp.queries[1].calls) :
              lastOp.queries[1].calls[i].key # <<>> =>
                  api_keys[lastOp.queries[1].calls[i].key[1]].user_id
                      = lastOp.queries[1].user_id
        /\ \A k \in DOMAIN api_keys :
              api_keys[k].last_used # <<>> =>
                  api_keys[k].user_id = lastOp.queries[1].user_id
        /\ lastOp.queries[1].resolved =>
              lastOp.queries[1].eligible =
                  AllSourcesToQuery(OwnKeys(api_keys, lastOp.queries[1].user_id),
                                    api_sources, lastOp.queries[1].payload.sources,
                                    lastOp.queries[1].auto_mode_only)

\* C26: in the response of a fan-out no source has two results and no source
\* is called twice
C26_OneResultPerSource ==
    (lastOp.op = "query" /\ lastOp.queries[1].resolved) =>
        /\ \A i, j \in 1..Len(lastOp.queries[1].response.queried_sources) :
              i # j => lastOp.queries[1].response.queried_sources[i].source
                          # lastOp.queries[1].response.queried_sources[j].source
        /\ \A i, j \in 1..Len(lastOp.queries[1].calls) :
              i # j => lastOp.queries[1].calls[i].source
                          # lastOp.queries[1].calls[j].source

(***************************************************************************)
(* Properties of what a cached answer holds (checked under Spec).          *)
(***************************************************************************)
\* the sources the parameters of q make eligible
EligibleSources(q) ==
    {e.source : e \in SeqToSet(AllSourcesToQuery(api_keys, api_sources,
                                   q.payload.sources, q.auto_mode_only))}

\* C28: the response of every query, fanned out or answered from a cache
\* tier, holds results only of sources that the query's sources list and
\* automatic_mode_only make eligible (the result named system of an empty
\* source set apart); this includes the queries of a scheduler tick, whose
\* responses are what the tick records for the item
C28_ResponseHoldsOnlyEligibleSources ==
    \A i \in 1..Len(lastOp.queries) :
        \A j \in 1..Len(lastOp.queries[i].response.queried_sources) :
            \/ lastOp.queries[i].response.queried_sources[j].source = "system"
            \/ lastOp.queries[i].response.queried_sources[j].source
                   \in EligibleSources(lastOp.queries[i])

(***************************************************************************)
(* Properties of the tables the checks write (checked under SpecWatch).    *)
(***************************************************************************)
\* the history entries of item id that say an alert was triggered
TriggeredEntries(id) ==
    {i \in 1..Len(check_history) :
        /\ check_history[i].watchlist_item_id = id
        /\ check_history[i].alert_triggered}

\* the alerts that refer to item id
AlertsOf(id) == {j \in 1..Len(alerts) : alerts[j].asset_id = id}

\* C29: for every item there are as many alerts referring to it as history
\* entries with alert_triggered set, and every alert refers to the item's
\* watchlist, whether or not the watchlist has notifications enabled
C29_OneAlertPerTriggeredEntry ==
    /\ \A id \in DOMAIN items :
          Cardinality(AlertsOf(id)) = Cardinality(TriggeredEntries(id))
    /\ \A j \in 1..Len(alerts) :
          alerts[j].watchlist_id = items[alerts[j].asset_id].watchlist_id

\* the history entries of item id, by position
EntriesOf(id) ==
    {i \in 1..Len(check_history) : check_history[i].watchlist_item_id = id}

\* the position of the most recent history entry of item id
MostRecentEntry(id) ==
    CHOOSE i \in EntriesOf(id) : \A j \in EntriesOf(id) : j <= i

\* an item's last_* fields agree with its history
LastFieldsMatchHistory ==
    \A id \in DOMAIN items :
        /\ (items[id].last_check_date = <<>>) <=> (EntriesOf(id) = {})
        /\ EntriesOf(id) # {} =>
              /\ items[id].last_risk_score =
                     check_history[MostRecentEntry(id)].risk_score
              /\ items[id].last_status =
                     check_history[MostRecentEntry(id)].status
              /\ \A j \in EntriesOf(id) :
                     check_history[j].check_date <= items[id].last_check_date[1]

\* a step never takes last_check_date back
LastCheckNeverDecreases ==
    \A id \in DOMAIN items :
        items[id].last_check_date # <<>> =>
            /\ items'[id].last_check_date # <<>>
            /\ items'[id].last_check_date[1] >= items[id].last_check_date[1]

\* C30: after any sequence of completed scheduled and manual checks each
\* item's last_risk_score and last_status are those of its most recent
\* history entry, it has no last_check_date exactly when it has no history
\* entry, and no step decreases last_check_date
C30_LastFieldsFollowHistory ==
    /\ []LastFieldsMatchHistory
    /\ [][LastCheckNeverDecreases]_vars

\* C30 witness: an item was checked twice, an hour apart and with different
\* verdicts, and carries the later one
C30_Witness ==
    \E id \in DOMAIN items :
        \E i, j \in EntriesOf(id) :
            /\ i < j
            /\ j = MostRecentEntry(id)
            /\ check_history[i].check_date < check_history[j].check_date
            /\ check_history[i].risk_score # check_history[j].risk_score
            /\ items[id].last_risk_score = check_history[j].risk_score
            /\ items[id].last_check_date = <<check_history[j].check_date>>

====
